---- MODULE Spec2Model ----
(***************************************************************************)
(* A model of git-maestro: RepoState (state.py), the action registry and   *)
(* the menu driver (menu.py, cli.py), and the GitHub Actions fact cache    *)
(* (fetch_github_actions.py, refresh_github_actions.py).                   *)
(***************************************************************************)
EXTENDS Integers, Sequences, FiniteSets, TLC

VARIABLES
    fs,                  \* the directory / repository on disk
    st,                  \* RepoState: the structural fields
    facts,               \* RepoState.facts
    actions,             \* Menu.actions: the registration list
    applicable_actions,  \* Menu.applicable_actions
    menu,                \* the rows display_menu printed in this cycle
    pc,                  \* where the driver is
    selected,            \* the action whose execute is running / ran last
    success,             \* what execute returned: "true" | "false" | "raised" | "none"
    pre,                 \* RepoState (st, facts) when the running execute was entered
    refreshed,           \* no execute has run since _detect_state last ran
    refreshCalled,       \* display_menu called state.refresh() in this cycle
    refetched,           \* the fact keys the re-fetch of the refresh action has written
    inRefresh,           \* the execute that runs or ran last is the refresh action's, past its clear
    exitReason,          \* why Menu.run ended
    lsRemote,            \* what ls-remote did in this applicability pass
    last,                \* the RepoState method the harness called last, with its input
    interrupt,           \* where the KeyboardInterrupt of this cycle was raised
    dev_installation_error, \* MCPServer.dev_installation_error is set
    stdin_errors,        \* the error handler of sys.stdin's decoder
    serving,             \* where MCPServer.handle_message is
    nread,               \* the number of lines the loop of handle_message was given
    line,                \* the line handle_message handles / handled last
    stdout,              \* the lines written to standard output
    ran,                 \* what handling the line has run: "RepoState", "github"
    umask,               \* the file mode creation mask of the process
    CONFIG_DIR,          \* ~/.config/git-maestro: exists, mode
    CONFIG_FILE,         \* ~/.config/git-maestro/tokens.conf: exists, mode, tokens,
                         \* and whether _store_token wrote them
    storing              \* where _store_token is, with its arguments and locals

vars == <<fs, st, facts, actions, applicable_actions, menu, pc, selected, success,
          pre, refreshed, refreshCalled, refetched, inRefresh,
          exitReason, lsRemote, last, interrupt,
          dev_installation_error, stdin_errors, serving, nread, line, stdout, ran,
          umask, CONFIG_DIR, CONFIG_FILE, storing>>

None == "None"

-----------------------------------------------------------------------------
(* Bounds of the model *)

MaxRunId == 1
MaxJobs == 1

-----------------------------------------------------------------------------
(* Strings: str.startswith, `in`, str.lower, as Python computes them *)

StartsWith(s, prefix) ==
    /\ Len(prefix) <= Len(s)
    /\ SubSeq(s, 1, Len(prefix)) = prefix

Contains(s, t) ==
    \E i \in 1..(Len(s) - Len(t) + 1) : SubSeq(s, i, i + Len(t) - 1) = t

UpperChars == "ABCDEFGHIJKLMNOPQRSTUVWXYZ"
LowerChars == "abcdefghijklmnopqrstuvwxyz"

LowerChar(c) ==
    IF \E i \in 1..Len(UpperChars) : SubSeq(UpperChars, i, i) = c
    THEN LET i == CHOOSE j \in 1..Len(UpperChars) : SubSeq(UpperChars, j, j) = c
         IN  SubSeq(LowerChars, i, i)
    ELSE c

RECURSIVE Lower(_)
Lower(s) ==
    IF Len(s) = 0 THEN s
    ELSE LowerChar(SubSeq(s, 1, 1)) \o Lower(SubSeq(s, 2, Len(s)))

\* the remote URLs of the model
RemoteUrls ==
    { "git@github.com:o/r.git", "https://GitHub.com/o/r", "git@gitlab.com:o/r.git",
      "https://example.org/r.git" }

\* the remote URLs get_remote_type is called on, on its own
TypeUrls ==
    RemoteUrls \cup
    { "HTTPS://GITHUB.COM/O/R", "https://GitLab.com/o/r",
      "git@gitlab.example.org:o/r.git", "https://GITLAB.example.org/r",
      "https://github.example.org/r", "https://example.org/github.com/gitlab",
      "git@bitbucket.org:o/r.git", "/srv/git/r.git" }

\* str.lower of each of them, computed once
LowerOf == [u \in TypeUrls |-> Lower(u)]

-----------------------------------------------------------------------------
(* RepoState (state.py) *)

\* RepoState.__init__, lines 14-27: the fields before _detect_state runs
InitialFields ==
    [ is_git_repo     |-> FALSE,
      has_commits     |-> FALSE,
      has_readme      |-> FALSE,
      has_gitignore   |-> FALSE,
      has_remote      |-> FALSE,
      remote_url      |-> None,
      branch_name     |-> None,
      is_clean        |-> TRUE,
      untracked_files |-> <<>>,
      modified_files  |-> <<>> ]

\* the file names _detect_state looks for
readme_files == {"README.md", "README.rst", "README.txt", "README"}

\* what each probe of _detect_state does when nothing external goes wrong
NoFault == [commits |-> "ok", branch |-> "ok", remotes |-> "ok", status |-> "ok"]

Caught(e) == e \in {"ValueError", "GitCommandError"}

\* lines 38-43: the commit / active-branch probe.  iter_commits raises
\* ValueError on a repository without commits; active_branch raises TypeError
\* on a detached HEAD.
DetectCommits(s, w, p) ==
    LET commitsExc == IF p.commits # "ok" THEN p.commits
                      ELSE IF ~w.has_commits THEN "ValueError" ELSE "ok"
        branchExc  == IF p.branch # "ok" THEN p.branch
                      ELSE IF ~w.head_ok THEN "TypeError" ELSE "ok"
        failed     == [s EXCEPT !.has_commits = FALSE, !.branch_name = None]
    IN  IF commitsExc # "ok"
        THEN IF Caught(commitsExc) THEN [state |-> failed, raised |-> None]
             ELSE [state |-> s, raised |-> commitsExc]
        ELSE LET s1 == [s EXCEPT !.has_commits = TRUE]
             IN  IF branchExc = "ok"
                 THEN [state |-> [s1 EXCEPT !.branch_name = w.branch], raised |-> None]
                 ELSE IF Caught(branchExc) THEN [state |-> failed, raised |-> None]
                 ELSE [state |-> s1, raised |-> branchExc]

\* lines 45-52: README and .gitignore
DetectFiles(s, w) ==
    [s EXCEPT !.has_readme    = (\E readme \in readme_files : readme \in w.files),
              !.has_gitignore = (".gitignore" \in w.files)]

\* lines 54-61: the remote listing
DetectRemote(s, w, p) ==
    IF p.remotes # "ok" THEN [s EXCEPT !.has_remote = FALSE]
    ELSE IF w.remote # None
         THEN [s EXCEPT !.has_remote = TRUE, !.remote_url = w.remote]
         ELSE s

\* git lists paths in sorted order
PathOrder == <<".git-maestro/", ".gitignore", "README.md", "README.rst">>

SortedPaths(paths) ==
    LET Test(x) == x \in paths IN SelectSeq(PathOrder, Test)

\* the status probe extending the two lists where the code assigns them
DetectStatus_appends(s, w, p) ==
    IF ~s.has_commits THEN [state |-> s, raised |-> None]
    ELSE IF p.status = "ok"
         THEN [state |-> [s EXCEPT !.is_clean = ~w.dirty,
                                   !.untracked_files = @ \o SortedPaths(w.untracked),
                                   !.modified_files = @ \o SortedPaths(w.modified)],
               raised |-> None]
    ELSE IF Caught(p.status)
         THEN [state |-> [s EXCEPT !.is_clean = TRUE,
                                   !.untracked_files = <<>>,
                                   !.modified_files = <<>>],
               raised |-> None]
    ELSE [state |-> s, raised |-> p.status]

\* lines 63-75: the working-tree status, evaluated only with commits
DetectStatus(s, w, p) ==
    IF ~s.has_commits THEN [state |-> s, raised |-> None]
    ELSE IF p.status = "ok"
         THEN [state |-> [s EXCEPT !.is_clean = ~w.dirty,
                                   !.untracked_files = SortedPaths(w.untracked),
                                   !.modified_files = SortedPaths(w.modified)],
               raised |-> None]
    ELSE IF Caught(p.status)
         THEN [state |-> [s EXCEPT !.is_clean = TRUE,
                                   !.untracked_files = <<>>,
                                   !.modified_files = <<>>],
               raised |-> None]
    ELSE [state |-> s, raised |-> p.status]

\* RepoState._detect_state: the fields it leaves, and the exception that
\* escapes it (None when it returns).  git.Repo raises NoSuchPathError for a
\* missing path and InvalidGitRepositoryError for a directory that is no
\* repository; only the latter is caught (line 77).
DetectState(s, w, p) ==
    IF ~w.exists THEN [state |-> s, raised |-> "NoSuchPathError"]
    ELSE IF ~w.is_repo
         THEN [state |-> [s EXCEPT !.is_git_repo = FALSE], raised |-> None]
    ELSE LET c == DetectCommits([s EXCEPT !.is_git_repo = TRUE], w, p)
         IN  IF c.raised # None THEN c
             ELSE DetectStatus(DetectRemote(DetectFiles(c.state, w), w, p), w, p)

\* RepoState.has_fact
HasFact(f, fact_name) == fact_name \in DOMAIN f

\* RepoState.get_fact
GetFact(f, fact_name, default) ==
    IF fact_name \in DOMAIN f THEN f[fact_name] ELSE default

\* set_facts keeping the value a key already has (dict.setdefault per key)
SetFacts_keepsOld(f, m) ==
    [k \in (DOMAIN f) \cup (DOMAIN m) |-> IF k \in DOMAIN f THEN f[k] ELSE m[k]]

\* RepoState.set_facts: dict.update
SetFacts(f, m) ==
    [k \in (DOMAIN f) \cup (DOMAIN m) |-> IF k \in DOMAIN m THEN m[k] ELSE f[k]]

\* RepoState.clear_fact: dict.pop(fact_name, None)
ClearFact(f, fact_name) ==
    [k \in (DOMAIN f) \ {fact_name} |-> f[k]]

\* clear_facts_matching testing `prefix in key` where the code tests
\* key.startswith(prefix)
ClearFactsMatching_contains(f, prefix) ==
    LET keys_to_remove == {key \in DOMAIN f : Contains(key, prefix)}
    IN  [k \in (DOMAIN f) \ keys_to_remove |-> f[k]]

\* clear_facts_matching popping the one key equal to the prefix
ClearFactsMatching_exactKey(f, prefix) ==
    [k \in (DOMAIN f) \ {prefix} |-> f[k]]

\* clear_facts_matching popping only the marker key prefix + "checked"
ClearFactsMatching_markerOnly(f, prefix) ==
    [k \in (DOMAIN f) \ {prefix \o "checked"} |-> f[k]]

\* RepoState.clear_facts_matching
ClearFactsMatching(f, prefix) ==
    LET keys_to_remove == {key \in DOMAIN f : StartsWith(key, prefix)}
    IN  [k \in (DOMAIN f) \ keys_to_remove |-> f[k]]

\* get_remote_type matching the URL as it is spelt
GetRemoteType_caseSensitive(s) ==
    IF ~s.has_remote \/ s.remote_url \in {None, ""} THEN None
    ELSE IF Contains(s.remote_url, "github.com") THEN "github"
         ELSE IF Contains(s.remote_url, "gitlab.com") \/ Contains(s.remote_url, "gitlab")
              THEN "gitlab"
         ELSE "unknown"

\* RepoState.get_remote_type
GetRemoteType(s) ==
    IF ~s.has_remote \/ s.remote_url \in {None, ""} THEN None
    ELSE LET remote_lower == LowerOf[s.remote_url]
         IN  IF Contains(remote_lower, "github.com") THEN "github"
             ELSE IF Contains(remote_lower, "gitlab.com") \/ Contains(remote_lower, "gitlab")
                  THEN "gitlab"
             ELSE "unknown"

NoFacts == [k \in {} |-> TRUE]

\* refresh running __init__ again, which sets an empty fact store
RefreshState_newFacts(s, f, w, p) ==
    LET d == DetectState(s, w, p)
    IN  [st |-> d.state, facts |-> NoFacts, raised |-> d.raised]

\* RepoState.refresh: _detect_state again, on the fields as they are; the
\* facts are not among what it assigns
RefreshState(s, f, w, p) ==
    LET d == DetectState(s, w, p)
    IN  [st |-> d.state, facts |-> f, raised |-> d.raised]

\* RepoState.__init__
NewRepoState(w, p) == RefreshState(InitialFields, NoFacts, w, p)

-----------------------------------------------------------------------------
(* The actions: category and is_applicable *)

\* cli.get_all_actions
get_all_actions ==
    << "InitRepo", "InitialCommit", "AddReadme", "AddGitignore", "SetupRemote",
       "CreateRemoteRepo",
       "FetchGithubActions", "RefreshGithubActions", "ViewFailedJobs",
       "DownloadJobTraces" >>

\* Action.__init__ sets "setup"; the four info actions overwrite it.
\* "UncategorisedAction" is a subclass of Action that overwrites it with a
\* string of its own: category is a plain attribute that nothing checks
Category(a) ==
    CASE a \in {"FetchGithubActions", "RefreshGithubActions", "ViewFailedJobs",
                "DownloadJobTraces"} -> "info"
      [] a = "UncategorisedAction" -> "other"
      [] OTHER -> "setup"

GA_PREFIX == "github_actions_"

\* what `git ls-remote --heads origin` can do inside CreateRemoteRepoAction.is_applicable
LsRemoteOutcomes == {"zero", "nonzero", "timeout", "error"}

\* CreateRemoteRepoAction.is_applicable, lines 31-37: whether it gets as far as
\* running ls-remote
RunsLsRemote(s) ==
    /\ s.has_remote /\ s.remote_url \notin {None, ""}
    /\ LET remote_url == LowerOf[s.remote_url]
       IN  Contains(remote_url, "github.com") \/ Contains(remote_url, "gitlab.com")

\* InitRepoAction.is_applicable offering the action on a repository without
\* commits as well
InitRepo_is_applicable_noCommits(s) == ~s.is_git_repo \/ ~s.has_commits

InitRepo_is_applicable(s) == ~s.is_git_repo

\* InitialCommitAction.is_applicable without its has_commits test
InitialCommit_is_applicable_anyRepo(s) == s.is_git_repo

InitialCommit_is_applicable(s) == s.is_git_repo /\ ~s.has_commits

\* AddReadmeAction.is_applicable without its is_git_repo test
AddReadme_is_applicable_anyDirectory(s) == ~s.has_readme

AddReadme_is_applicable(s) == s.is_git_repo /\ ~s.has_readme

AddGitignore_is_applicable(s) == s.is_git_repo /\ ~s.has_gitignore

SetupRemote_is_applicable(s) == s.is_git_repo /\ ~s.has_remote

\* CreateRemoteRepoAction.is_applicable taking only a non-zero exit of
\* ls-remote for a missing repository
CreateRemoteRepo_is_applicable_exitOnly(s, probe) ==
    IF ~s.has_remote \/ s.remote_url \in {None, ""} THEN FALSE
    ELSE LET remote_url == LowerOf[s.remote_url]
         IN  IF ~(Contains(remote_url, "github.com") \/ Contains(remote_url, "gitlab.com"))
             THEN FALSE
             ELSE probe = "nonzero"

CreateRemoteRepo_is_applicable(s, probe) ==
    IF ~s.has_remote \/ s.remote_url \in {None, ""} THEN FALSE
    ELSE LET remote_url == LowerOf[s.remote_url]
         IN  IF ~(Contains(remote_url, "github.com") \/ Contains(remote_url, "gitlab.com"))
             THEN FALSE
             ELSE probe # "zero"

\* FetchGithubActionsAction.is_applicable without its has_fact test
FetchGithubActions_is_applicable_unchecked(s, f) ==
    IF ~s.is_git_repo \/ ~s.has_remote THEN FALSE
    ELSE GetRemoteType(s) = "github"

FetchGithubActions_is_applicable(s, f) ==
    IF ~s.is_git_repo \/ ~s.has_remote THEN FALSE
    ELSE IF GetRemoteType(s) # "github" THEN FALSE
    ELSE ~HasFact(f, "github_actions_checked")

RefreshGithubActions_is_applicable(s, f) ==
    GetRemoteType(s) = "github" /\ HasFact(f, "github_actions_checked")

ViewFailedJobs_is_applicable(f) ==
    /\ HasFact(f, "github_actions_checked")
    /\ GetFact(f, "github_actions_latest_failed_count", 0) > 0

DownloadJobTraces_is_applicable(f) ==
    /\ HasFact(f, "github_actions_checked")
    /\ GetFact(f, "github_actions_latest_failed_count", 0) > 0

\* action.is_applicable(state), dispatched on the action
IsApplicable(a, s, f, probe) ==
    CASE a = "InitRepo"             -> InitRepo_is_applicable(s)
      [] a = "InitialCommit"        -> InitialCommit_is_applicable(s)
      [] a = "AddReadme"            -> AddReadme_is_applicable(s)
      [] a = "AddGitignore"         -> AddGitignore_is_applicable(s)
      [] a = "SetupRemote"          -> SetupRemote_is_applicable(s)
      [] a = "CreateRemoteRepo"     -> CreateRemoteRepo_is_applicable(s, probe)
      [] a = "FetchGithubActions"   -> FetchGithubActions_is_applicable(s, f)
      [] a = "RefreshGithubActions" -> RefreshGithubActions_is_applicable(s, f)
      [] a = "ViewFailedJobs"       -> ViewFailedJobs_is_applicable(f)
      [] a = "DownloadJobTraces"    -> DownloadJobTraces_is_applicable(f)
      [] a = "UncategorisedAction"  -> TRUE

-----------------------------------------------------------------------------
(* Menu (menu.py) *)

\* display_menu, lines 116-117
SetupActions(app) ==
    LET Test(a) == Category(a) = "setup" IN SelectSeq(app, Test)

InfoActions(app) ==
    LET Test(a) == Category(a) = "info" IN SelectSeq(app, Test)

\* get_applicable_actions returning the applicable actions grouped by
\* category
GetApplicableActions_grouped(acts, s, f, probe) ==
    LET Test(a) == IsApplicable(a, s, f, probe)
    IN  SetupActions(SelectSeq(acts, Test)) \o InfoActions(SelectSeq(acts, Test))

\* Menu.get_applicable_actions: the list comprehension over self.actions
GetApplicableActions(acts, s, f, probe) ==
    LET Test(a) == IsApplicable(a, s, f, probe)
    IN  SelectSeq(acts, Test)

ExitRow == [num |-> 0, action |-> "Exit"]

\* the menu table with the info rows above the setup rows
MenuRows_infoFirst(app) ==
    LET setup_actions == SetupActions(app)
        info_actions  == InfoActions(app)
        n == Len(setup_actions) + Len(info_actions)
    IN  [i \in 1..n |->
            [num |-> i,
             action |-> IF i <= Len(info_actions) THEN info_actions[i]
                        ELSE setup_actions[i - Len(info_actions)]]]
        \o <<ExitRow>>

\* display_menu, lines 127-154: the numbered rows of the menu table, the
\* setup rows, then the info rows, then the exit row
MenuRows(app) ==
    LET setup_actions == SetupActions(app)
        info_actions  == InfoActions(app)
        n == Len(setup_actions) + Len(info_actions)
    IN  [i \in 1..n |->
            [num |-> i,
             action |-> IF i <= Len(setup_actions) THEN setup_actions[i]
                        ELSE info_actions[i - Len(setup_actions)]]]
        \o <<ExitRow>>

-----------------------------------------------------------------------------
(* The directory the session starts in, and what the hosting API answers *)

FileNames == {"README.rst", ".gitignore"}

NotARepo(files) ==
    [ exists |-> TRUE, is_repo |-> FALSE, has_commits |-> FALSE, head_ok |-> TRUE,
      branch |-> "main", files |-> files, remote |-> None, dirty |-> FALSE,
      untracked |-> {}, modified |-> {} ]

\* the directories cli.main lets a session start in: the path exists (lines
\* 122-131) and RepoState(path) did not raise (line 62)
SessionWorlds ==
    { NotARepo(files) : files \in SUBSET FileNames }
    \cup
    { [NotARepo(files) EXCEPT !.is_repo = TRUE, !.remote = r, !.untracked = files]
        : files \in SUBSET FileNames, r \in {None} \cup RemoteUrls }
    \cup
    UNION { { [NotARepo(files) EXCEPT !.is_repo = TRUE, !.has_commits = TRUE,
                                      !.remote = r, !.untracked = u]
                : r \in {None} \cup RemoteUrls, u \in {{}, files} }
            : files \in SUBSET FileNames }

\* a list of actions with the info actions registered among the setup ones
interleaved_actions ==
    << "FetchGithubActions", "InitRepo", "RefreshGithubActions", "InitialCommit",
       "AddReadme", "ViewFailedJobs", "AddGitignore", "SetupRemote",
       "DownloadJobTraces", "CreateRemoteRepo" >>

\* the lists Menu(state, actions) is built with
Registries == {get_all_actions, interleaved_actions}

\* a workflow run as the hosting API reports it
Runs ==
    { [id |-> i, status |-> p[1], conclusion |-> p[2]] :
        i \in 1..MaxRunId,
        p \in {<<"completed", "failure">>, <<"in_progress", None>>} }

\* the jobs of a run: the conclusion of each
JobLists == UNION { [1..n -> {"success", "failure"}] : n \in 0..MaxJobs }

\* _parse_github_url: re.search of github\.com[:/]([^/]+)/([^/]+?)(?:\.git)?$
\* finds a match (TRUE) or returns None (FALSE)
ParseGithubUrl(remote_url) ==
    \E i \in 1..(Len(remote_url) - 10) :
        /\ SubSeq(remote_url, i, i + 9) = "github.com"
        /\ SubSeq(remote_url, i + 10, i + 10) \in {":", "/"}
        /\ LET rest == SubSeq(remote_url, i + 11, Len(remote_url))
               slashes == {j \in 1..Len(rest) : SubSeq(rest, j, j) = "/"}
           IN  \E j \in slashes : slashes = {j} /\ 1 < j /\ j < Len(rest)

\* fetch_github_actions.py lines 150-155
NoRunsFacts ==
    [k \in {"github_actions_checked", "github_actions_has_runs"} |->
        IF k = "github_actions_checked" THEN TRUE ELSE FALSE]

\* fetch_github_actions.py lines 159-169
BasicFacts(latest_run) ==
    [k \in {"github_actions_checked", "github_actions_has_runs",
            "github_actions_latest_run_id", "github_actions_latest_status",
            "github_actions_latest_conclusion", "github_actions_latest_url"} |->
        CASE k = "github_actions_checked"           -> TRUE
          [] k = "github_actions_has_runs"          -> TRUE
          [] k = "github_actions_latest_run_id"     -> latest_run.id
          [] k = "github_actions_latest_status"     -> latest_run.status
          [] k = "github_actions_latest_conclusion" -> latest_run.conclusion
          [] k = "github_actions_latest_url"        -> <<"html_url", latest_run.id>>]

\* fetch_github_actions.py line 270
FailedJobs(job_list) ==
    LET Test(j) == job_list[j] = "failure"
    IN  SelectSeq([j \in 1..Len(job_list) |-> j], Test)

\* fetch_github_actions.py lines 271-280
JobFacts(job_list) ==
    [k \in {"github_actions_latest_job_count", "github_actions_latest_failed_count",
            "github_actions_latest_failed_jobs"} |->
        CASE k = "github_actions_latest_job_count"    -> Len(job_list)
          [] k = "github_actions_latest_failed_count" -> Len(FailedJobs(job_list))
          [] k = "github_actions_latest_failed_jobs"  -> FailedJobs(job_list)]

\* download_job_traces.py lines 182-188
TracesFacts(run_id) ==
    [k \in {"github_actions_traces_downloaded", "github_actions_traces_path",
            "github_actions_traces_run_id"} |->
        CASE k = "github_actions_traces_downloaded" -> TRUE
          [] k = "github_actions_traces_path"       -> <<"run_dir", run_id>>
          [] k = "github_actions_traces_run_id"     -> run_id]

-----------------------------------------------------------------------------
(* The parts of the program a specification leaves out: the MCP server is
   not started, and no token is being stored *)

serverVars == <<dev_installation_error, stdin_errors, serving, nread, line, stdout, ran>>
tokenVars == <<umask, CONFIG_DIR, CONFIG_FILE, storing>>
elsewhere == <<serverVars, tokenVars>>

NoLine == [kind |-> "none", id |-> None, method |-> None, name |-> None,
           arguments |-> {}, form |-> "ok"]

ServerOff ==
    /\ dev_installation_error = FALSE
    /\ stdin_errors = "strict"
    /\ serving = "off"
    /\ nread = 0
    /\ line = NoLine
    /\ stdout = <<>>
    /\ ran = {}

NoTokens == [provider \in {} |-> ""]

NothingStored ==
    /\ umask = 18
    /\ CONFIG_DIR = [exists |-> FALSE, mode |-> 0]
    /\ CONFIG_FILE = [exists |-> FALSE, mode |-> 0, tokens |-> NoTokens, written |-> FALSE]
    /\ storing = [at |-> "idle", provider |-> None, token |-> None, tokens |-> NoTokens]

-----------------------------------------------------------------------------
(* The session: cli.main_interactive and Menu.run *)

Init ==
    /\ fs \in SessionWorlds
    /\ st = NewRepoState(fs, NoFault).st
    /\ facts = NoFacts
    /\ actions \in Registries
    /\ applicable_actions = <<>>
    /\ menu = <<>>
    /\ pc = "select"
    /\ selected = None
    /\ success = "none"
    /\ pre = [st |-> st, facts |-> facts]
    /\ refreshed = TRUE
    /\ refreshCalled = FALSE
    /\ refetched = {}
    /\ inRefresh = FALSE
    /\ exitReason = None
    /\ lsRemote = "not_run"
    /\ last = [op |-> "none"]
    /\ interrupt = None
    /\ ServerOff
    /\ NothingStored

refreshGhosts == <<refetched, inRefresh>>
menuVars == <<actions, applicable_actions, menu>>

\* display_menu, lines 107-157: the applicability pass and the menu table
DisplayMenu ==
    /\ pc = "select"
    /\ \E p \in IF RunsLsRemote(st) THEN LsRemoteOutcomes ELSE {"not_run"} :
        LET app == GetApplicableActions(actions, st, facts, p)
        IN  /\ applicable_actions' = app
            /\ lsRemote' = p
            /\ IF app = <<>>
               THEN menu' = <<>> /\ pc' = "done" /\ exitReason' = "no_actions"
               ELSE menu' = MenuRows(app) /\ pc' = "prompt" /\ exitReason' = exitReason
    /\ refreshCalled' = FALSE
    /\ selected' = None
    /\ success' = "none"
    /\ UNCHANGED <<fs, st, facts, actions, pre, refreshed, refreshGhosts, last, interrupt, elsewhere>>

\* lines 173-175: the user enters 0
ChooseExit ==
    /\ pc = "prompt"
    /\ pc' = "done"
    /\ exitReason' = "exit"
    /\ UNCHANGED <<fs, st, facts, menuVars, lsRemote, selected, success, pre, refreshed,
                   refreshCalled, refreshGhosts, last, interrupt, elsewhere>>

\* lines 171-180: the user enters a number the validator lets through; execute
\* of applicable_actions[choice_num - 1] is entered
ChooseAction ==
    /\ pc = "prompt"
    /\ \E choice_num \in 1..Len(applicable_actions) :
        selected' = applicable_actions[choice_num]
    /\ pc' = "exec"
    /\ pre' = [st |-> st, facts |-> facts]
    /\ refreshed' = FALSE
    /\ inRefresh' = FALSE
    /\ refetched' = {}
    /\ lsRemote' = "not_run"
    /\ UNCHANGED <<fs, st, facts, menuVars, success, refreshCalled, exitReason, last, interrupt, elsewhere>>

\* display_menu without its `except (ValueError, IndexError)`: the ValueError
\* of int("") reaches Menu.run
InvalidChoice_ends ==
    /\ pc = "prompt"
    /\ pc' = "done"
    /\ exitReason' = "error"
    /\ UNCHANGED <<fs, st, facts, menuVars, lsRemote, selected, success, pre, refreshed,
                   refreshCalled, refreshGhosts, last, interrupt, elsewhere>>

\* lines 171, 189-191: the empty input passes the validator and int("") raises
\* ValueError
InvalidChoice ==
    /\ pc = "prompt"
    /\ pc' = "pause"
    /\ UNCHANGED <<fs, st, facts, menuVars, lsRemote, selected, success, pre, refreshed,
                   refreshCalled, refreshGhosts, exitReason, last, interrupt, elsewhere>>

\* lines 192-197: KeyboardInterrupt or EOFError at the prompt
PromptInterrupted ==
    /\ pc = "prompt"
    /\ pc' = "done"
    /\ \E e \in {"KeyboardInterrupt", "EOFError"} :
        /\ exitReason' = e
        /\ interrupt' = IF e = "KeyboardInterrupt" THEN "prompt" ELSE interrupt
    /\ UNCHANGED <<fs, st, facts, menuVars, lsRemote, selected, success, pre, refreshed,
                   refreshCalled, refreshGhosts, last, elsewhere>>

\* execute returns (or raises): back in display_menu at line 180
Return(result) ==
    /\ success' = result
    /\ pc' = "post"

Running(a) == pc = "exec" /\ selected = a

\* state.set_facts(m) inside an execute
WriteFacts(m) ==
    /\ facts' = SetFacts(facts, m)
    /\ refetched' = IF inRefresh THEN refetched \cup DOMAIN m ELSE refetched

\* InitRepoAction.execute returning True after git init alone, without the
\* empty commit
ExecInitRepo_noCommit ==
    /\ Running("InitRepo")
    /\ \E outcome \in {"error_before_init", "ok"} :
        CASE outcome = "error_before_init" ->
                fs' = fs /\ Return("false")
          [] outcome = "ok" ->
                /\ fs' = [fs EXCEPT !.is_repo = TRUE,
                                    !.untracked = IF fs.is_repo THEN @ ELSE fs.files]
                /\ Return("true")
    /\ UNCHANGED <<st, facts, menuVars, lsRemote, selected, pre, refreshed,
                   refreshCalled, refreshGhosts, exitReason, last, interrupt, elsewhere>>

\* InitRepoAction.execute: git init, an empty commit, the branch rename
ExecInitRepo ==
    /\ Running("InitRepo")
    /\ \E outcome \in {"error_before_init", "commit_failed", "ok"} :
        CASE outcome = "error_before_init" ->
                fs' = fs /\ Return("false")
          [] outcome = "commit_failed" ->
                /\ fs' = [fs EXCEPT !.is_repo = TRUE,
                                    !.untracked = IF fs.is_repo THEN @ ELSE fs.files]
                /\ Return("false")
          [] outcome = "ok" ->
                /\ fs' = [fs EXCEPT !.is_repo = TRUE, !.has_commits = TRUE,
                                    !.head_ok = TRUE, !.branch = "main",
                                    !.untracked = IF fs.is_repo THEN @ ELSE fs.files]
                /\ Return("true")
    /\ UNCHANGED <<st, facts, menuVars, lsRemote, selected, pre, refreshed,
                   refreshCalled, refreshGhosts, exitReason, last, interrupt, elsewhere>>

\* InitialCommitAction.execute: stage the chosen files, commit, rename the
\* branch; a failed push still returns True
ExecInitialCommit ==
    /\ Running("InitialCommit")
    /\ \E outcome \in {"error", "all_files", "empty_commit"} :
        CASE outcome = "error" ->
                fs' = fs /\ Return("false")
          [] outcome = "all_files" ->
                /\ fs' = [fs EXCEPT !.has_commits = TRUE, !.head_ok = TRUE,
                                    !.branch = "main", !.untracked = {}]
                /\ Return("true")
          [] outcome = "empty_commit" ->
                /\ fs' = [fs EXCEPT !.has_commits = TRUE, !.head_ok = TRUE,
                                    !.branch = "main"]
                /\ Return("true")
    /\ UNCHANGED <<st, facts, menuVars, lsRemote, selected, pre, refreshed,
                   refreshCalled, refreshGhosts, exitReason, last, interrupt, elsewhere>>

\* write_text of a new file in the directory
WriteFile(w, name) ==
    [w EXCEPT !.files = @ \cup {name},
              !.untracked = IF w.is_repo /\ name \notin w.files THEN @ \cup {name} ELSE @]

\* AddReadmeAction.execute
ExecAddReadme ==
    /\ Running("AddReadme")
    /\ \E outcome \in {"error", "ok"} :
        IF outcome = "ok"
        THEN fs' = WriteFile(fs, "README.md") /\ Return("true")
        ELSE fs' = fs /\ Return("false")
    /\ UNCHANGED <<st, facts, menuVars, lsRemote, selected, pre, refreshed,
                   refreshCalled, refreshGhosts, exitReason, last, interrupt, elsewhere>>

\* AddGitignoreAction.execute
ExecAddGitignore ==
    /\ Running("AddGitignore")
    /\ \E outcome \in {"error", "ok"} :
        IF outcome = "ok"
        THEN fs' = WriteFile(fs, ".gitignore") /\ Return("true")
        ELSE fs' = fs /\ Return("false")
    /\ UNCHANGED <<st, facts, menuVars, lsRemote, selected, pre, refreshed,
                   refreshCalled, refreshGhosts, exitReason, last, interrupt, elsewhere>>

\* SetupRemoteAction.execute with _setup_github / _setup_gitlab / _setup_manual
\* and _push_to_remote: an error before the remote is added (API, auth,
\* cancel), or create_remote("origin", url) and then the push when the state
\* has commits.  create_remote raises when origin exists already.
ExecSetupRemote ==
    /\ Running("SetupRemote")
    /\ \E outcome \in {"error", "added"}, remote_url \in RemoteUrls,
          push \in {"ok", "declined", "failed"} :
        IF outcome = "error" \/ fs.remote # None
        THEN fs' = fs /\ Return("false")
        ELSE /\ fs' = [fs EXCEPT !.remote = remote_url]
             /\ Return(IF st.has_commits /\ push = "failed" THEN "false" ELSE "true")
    /\ UNCHANGED <<st, facts, menuVars, lsRemote, selected, pre, refreshed,
                   refreshCalled, refreshGhosts, exitReason, last, interrupt, elsewhere>>

\* CreateRemoteRepoAction._parse_remote_url: re.match of
\* git@(github|gitlab)\.com:([^/]+)/(.+?)(?:\.git)?$ or
\* https?://(github|gitlab)\.com/([^/]+)/(.+?)(?:\.git)?$
ParseRemoteUrl(remote_url) ==
    \E head \in {"git@github.com:", "git@gitlab.com:", "https://github.com/",
                 "http://github.com/", "https://gitlab.com/", "http://gitlab.com/"} :
        /\ StartsWith(remote_url, head)
        /\ LET rest == SubSeq(remote_url, Len(head) + 1, Len(remote_url))
               slashes == {j \in 1..Len(rest) : SubSeq(rest, j, j) = "/"}
           IN  \E j \in slashes :
                   /\ \A k \in slashes : j <= k
                   /\ 1 < j /\ j < Len(rest)

\* CreateRemoteRepoAction.execute: the repository is created at the host;
\* nothing of the directory or of the state changes
ExecCreateRemoteRepo ==
    /\ Running("CreateRemoteRepo")
    /\ \E outcome \in {"error", "ok"} :
        Return(IF outcome = "ok" /\ st.remote_url # None /\ ParseRemoteUrl(st.remote_url)
               THEN "true" ELSE "false")
    /\ UNCHANGED <<fs, st, facts, menuVars, lsRemote, selected, pre, refreshed,
                   refreshCalled, refreshGhosts, exitReason, last, interrupt, elsewhere>>

\* ViewFailedJobsAction.execute: True without failed jobs, False without a
\* token, True after the jobs were shown
ExecViewFailedJobs ==
    /\ Running("ViewFailedJobs")
    /\ \E outcome \in {"no_token", "ok"} :
        Return(IF GetFact(facts, "github_actions_latest_failed_jobs", <<>>) = <<>>
                  \/ outcome = "ok"
               THEN "true" ELSE "false")
    /\ UNCHANGED <<fs, st, facts, menuVars, lsRemote, selected, pre, refreshed,
                   refreshCalled, refreshGhosts, exitReason, last, interrupt, elsewhere>>

\* what a call of the hosting API can do: answer, raise GithubException with
\* the error body as a dict, raise GithubException with no body (data is None),
\* or raise something else (a network error)
ApiFailures == {"github_exception", "github_exception_no_data", "other_exception"}

\* the except clauses that end FetchGithubActionsAction.execute (lines 310-320)
\* and DownloadJobTracesAction.execute (lines 192-201): e.data.get(...) in the
\* GithubException handler raises AttributeError when data is None, and nothing
\* catches what a handler raises
OuterHandler(failure) ==
    IF failure = "github_exception_no_data" THEN "raised" ELSE "false"

\* DownloadJobTracesAction.execute
ExecDownloadJobTraces ==
    /\ Running("DownloadJobTraces")
    /\ LET failed_jobs == GetFact(facts, "github_actions_latest_failed_jobs", <<>>)
           run_id == GetFact(facts, "github_actions_latest_run_id", 0)
       IN  IF failed_jobs = <<>>
           THEN UNCHANGED <<fs, facts, refetched>> /\ Return("true")
           ELSE IF run_id = 0
           THEN UNCHANGED <<fs, facts, refetched>> /\ Return("false")
           ELSE \E outcome \in {"no_token", "ok"} \cup ApiFailures :
               IF outcome = "no_token"
                  \/ st.remote_url = None \/ ~ParseGithubUrl(st.remote_url)
               THEN UNCHANGED <<fs, facts, refetched>> /\ Return("false")
               ELSE IF outcome \in ApiFailures
               THEN /\ UNCHANGED <<fs, facts, refetched>>
                    /\ Return(OuterHandler(outcome))
               ELSE /\ fs' = [fs EXCEPT !.untracked =
                                IF fs.is_repo THEN @ \cup {".git-maestro/"} ELSE @]
                    /\ WriteFacts(TracesFacts(run_id))
                    /\ Return("true")
    /\ UNCHANGED <<st, menuVars, lsRemote, selected, pre, refreshed, refreshCalled,
                   inRefresh, exitReason, last, interrupt, elsewhere>>

\* RefreshGithubActionsAction.execute, line 27: the namespace is cleared; the
\* re-fetch follows
RefreshClear ==
    /\ Running("RefreshGithubActions")
    /\ facts' = ClearFactsMatching(facts, GA_PREFIX)
    /\ refetched' = {}
    /\ inRefresh' = TRUE
    /\ pc' = "fetch"
    /\ UNCHANGED <<fs, st, menuVars, lsRemote, selected, success, pre, refreshed,
                   refreshCalled, exitReason, last, interrupt, elsewhere>>

\* FetchGithubActionsAction.execute, lines 110-169: the URL, the token, the
\* runs of the branch, the first set_facts
FetchRuns ==
    /\ Running("FetchGithubActions") \/ pc = "fetch"
    /\ IF st.remote_url = None \/ ~ParseGithubUrl(st.remote_url)
       THEN UNCHANGED <<facts, refetched>> /\ Return("false")
       ELSE \E outcome \in {"no_token", "no_runs", "runs"} \cup ApiFailures,
               latest_run \in Runs :
           CASE outcome = "no_token" ->
                   UNCHANGED <<facts, refetched>> /\ Return("false")
             [] outcome \in ApiFailures ->
                   /\ UNCHANGED <<facts, refetched>>
                   /\ Return(OuterHandler(outcome))
             [] outcome = "no_runs" ->
                   WriteFacts(NoRunsFacts) /\ Return("true")
             [] outcome = "runs" ->
                   /\ WriteFacts(BasicFacts(latest_run))
                   /\ pc' = "fetch_jobs"
                   /\ success' = success
    /\ UNCHANGED <<fs, st, menuVars, lsRemote, selected, pre, refreshed, refreshCalled,
                   inRefresh, exitReason, last, interrupt, elsewhere>>

\* FetchGithubActionsAction.execute, lines 223-308: the jobs of the latest run
\* and the second set_facts.  The inner handler (line 300) catches
\* GithubException; when its e.data is None the handler's e.data.get raises
\* and, like any other exception, ends in the outer `except Exception`.
FetchJobs ==
    /\ pc = "fetch_jobs"
    /\ \E outcome \in {"jobs", "steps_failed"} \cup ApiFailures, job_list \in JobLists :
        CASE outcome = "github_exception" ->
                UNCHANGED <<facts, refetched>> /\ Return("true")
          [] outcome \in {"github_exception_no_data", "other_exception"} ->
                UNCHANGED <<facts, refetched>> /\ Return("false")
          [] outcome \in {"jobs", "steps_failed"} /\ job_list = <<>> ->
                UNCHANGED <<facts, refetched>> /\ Return("true")
          [] outcome = "jobs" /\ job_list # <<>> ->
                WriteFacts(JobFacts(job_list)) /\ Return("true")
          [] outcome = "steps_failed" /\ job_list # <<>> ->
                /\ WriteFacts(JobFacts(job_list))
                /\ Return(IF FailedJobs(job_list) # <<>> THEN "false" ELSE "true")
    /\ UNCHANGED <<fs, st, menuVars, lsRemote, selected, pre, refreshed, refreshCalled,
                   inRefresh, exitReason, last, interrupt, elsewhere>>

\* display_menu going on without the refresh after execute returned True
PostRefresh_skips ==
    /\ pc = "post" /\ success = "true"
    /\ pc' = "pause"
    /\ pre' = [st |-> st, facts |-> facts]
    /\ UNCHANGED <<fs, st, facts, menuVars, lsRemote, selected, success, refreshed,
                   refreshCalled, refreshGhosts, exitReason, last, interrupt, elsewhere>>

\* display_menu, lines 182-187: execute returned True
PostRefresh ==
    /\ pc = "post" /\ success = "true"
    /\ LET r == RefreshState(st, facts, fs, NoFault)
       IN  /\ st' = r.st
           /\ facts' = r.facts
           /\ IF r.raised = None
              THEN pc' = "pause" /\ exitReason' = exitReason
              ELSE pc' = "done" /\ exitReason' = "error"
    /\ refreshCalled' = TRUE
    /\ refreshed' = TRUE
    /\ pre' = [st |-> st', facts |-> facts']
    /\ UNCHANGED <<fs, menuVars, lsRemote, selected, success, refreshGhosts, last, interrupt, elsewhere>>

\* display_menu refreshing whatever execute returned
PostSkip_refreshes ==
    /\ pc = "post" /\ success = "false"
    /\ LET r == RefreshState(st, facts, fs, NoFault)
       IN  /\ st' = r.st
           /\ facts' = r.facts
    /\ pc' = "pause"
    /\ refreshCalled' = TRUE
    /\ refreshed' = TRUE
    /\ pre' = [st |-> st', facts |-> facts']
    /\ interrupt' = None
    /\ UNCHANGED <<fs, menuVars, lsRemote, selected, success, refreshGhosts, exitReason,
                   last, elsewhere>>

\* display_menu, lines 182-187: execute returned False
PostSkip ==
    /\ pc = "post" /\ success = "false"
    /\ pc' = "pause"
    /\ pre' = [st |-> st, facts |-> facts]
    /\ interrupt' = None
    /\ UNCHANGED <<fs, st, facts, menuVars, lsRemote, selected, success, refreshed,
                   refreshCalled, refreshGhosts, exitReason, last, elsewhere>>

\* execute raised: no except clause of display_menu matches, and Menu.run
\* (lines 214-215) prints the error and ends
PostRaised ==
    /\ pc = "post" /\ success = "raised"
    /\ pc' = "done"
    /\ exitReason' = "error"
    /\ pre' = [st |-> st, facts |-> facts]
    /\ UNCHANGED <<fs, st, facts, menuVars, lsRemote, selected, success, refreshed,
                   refreshCalled, refreshGhosts, last, interrupt, elsewhere>>

\* the actions whose execute has an `except KeyboardInterrupt` of its own
\* (setup_remote.py 218-220, create_remote_repo.py 293-295)
CatchesInterrupt == {"SetupRemote", "CreateRemoteRepo"}

\* the handler a KeyboardInterrupt ends in with the prompt of run unguarded
InterruptHandler_pauseUnguarded(where, a) ==
    CASE where = "applicability" -> "run"
      [] where = "prompt"        -> "display_menu"
      [] where = "execute"       -> IF a \in CatchesInterrupt THEN "execute"
                                    ELSE "display_menu"
      [] where = "refresh"       -> "display_menu"
      [] where = "pause"         -> "none"

\* the handler a KeyboardInterrupt ends in: the try of Menu.run (203-213)
\* holds the whole loop, the try of display_menu (164-197) holds the prompt,
\* execute and the refresh, and `except Exception` catches no KeyboardInterrupt
InterruptHandler(where, a) ==
    CASE where = "applicability" -> "run"
      [] where = "prompt"        -> "display_menu"
      [] where = "execute"       -> IF a \in CatchesInterrupt THEN "execute"
                                    ELSE "display_menu"
      [] where = "refresh"       -> "display_menu"
      [] where = "pause"         -> "run"

\* where the driver is when the interrupt arrives
InterruptedAt ==
    CASE pc = "select" -> "applicability"
      [] pc \in {"exec", "fetch", "fetch_jobs"} -> "execute"
      [] pc = "pause"  -> "pause"

\* Ctrl-C during the applicability pass, while an execute runs or at the
\* "Press Enter" prompt: the handler of execute prints "Cancelled" and returns
\* False; those of display_menu and run print the goodbye and end the loop;
\* with no handler the exception leaves Menu.run
Interrupt ==
    /\ pc \in {"select", "exec", "fetch", "fetch_jobs", "pause"}
    /\ interrupt' = InterruptedAt
    /\ LET handler == InterruptHandler(InterruptedAt, selected)
       IN  CASE handler = "execute" ->
                  Return("false") /\ exitReason' = exitReason
             [] handler \in {"display_menu", "run"} ->
                  pc' = "done" /\ exitReason' = "KeyboardInterrupt" /\ success' = success
             [] OTHER ->
                  pc' = "done" /\ exitReason' = "escaped" /\ success' = success
    /\ UNCHANGED <<fs, st, facts, menuVars, lsRemote, selected, pre, refreshed,
                   refreshCalled, refreshGhosts, last, elsewhere>>

\* Menu.run, lines 209-210: "Press Enter to continue"
Pause ==
    /\ pc = "pause"
    /\ pc' = "select"
    /\ UNCHANGED <<fs, st, facts, menuVars, lsRemote, selected, success, pre, refreshed,
                   refreshCalled, refreshGhosts, exitReason, last, interrupt, elsewhere>>

\* Menu.run, lines 209-215: the input ends at "Press Enter to continue";
\* prompt raises EOFError, which `except Exception` of run reports as an error
PauseEndOfInput ==
    /\ pc = "pause"
    /\ pc' = "done"
    /\ exitReason' = "pause_EOFError"
    /\ UNCHANGED <<fs, st, facts, menuVars, lsRemote, selected, success, pre, refreshed,
                   refreshCalled, refreshGhosts, last, interrupt, elsewhere>>

Next ==
    \/ DisplayMenu
    \/ ChooseExit
    \/ ChooseAction
    \/ InvalidChoice
    \/ PromptInterrupted
    \/ ExecInitRepo
    \/ ExecInitialCommit
    \/ ExecAddReadme
    \/ ExecAddGitignore
    \/ ExecSetupRemote
    \/ ExecCreateRemoteRepo
    \/ ExecViewFailedJobs
    \/ ExecDownloadJobTraces
    \/ RefreshClear
    \/ FetchRuns
    \/ FetchJobs
    \/ PostRefresh
    \/ PostSkip
    \/ PostRaised
    \/ Interrupt
    \/ Pause
    \/ PauseEndOfInput

Spec == Init /\ [][Next]_vars

-----------------------------------------------------------------------------
(* RepoState on its own: one object, its methods called in any order while the
   directory changes under it *)

\* the conditions the directory can be in, the missing path and the detached
\* HEAD among them
AnyWorlds ==
    { [NotARepo({}) EXCEPT !.exists = FALSE] }
    \cup
    { NotARepo(files) : files \in {{}, FileNames} }
    \cup
    { [NotARepo(files) EXCEPT !.is_repo = TRUE, !.remote = r, !.untracked = files]
        : files \in {{}, FileNames}, r \in {None, "git@github.com:o/r.git"} }
    \cup
    { [NotARepo(files) EXCEPT !.is_repo = TRUE, !.has_commits = TRUE, !.remote = r,
                              !.dirty = d,
                              !.untracked = IF d THEN {".gitignore"} \cap files ELSE {},
                              !.modified = IF d THEN {"README.rst"} \cap files ELSE {}]
        : files \in {{}, FileNames}, r \in {None, "git@github.com:o/r.git"},
          d \in BOOLEAN }
    \cup
    { [NotARepo({}) EXCEPT !.is_repo = TRUE, !.has_commits = TRUE, !.head_ok = FALSE] }

\* what the probes of one _detect_state run can raise
ProbeFaults ==
    { NoFault,
      [NoFault EXCEPT !.branch = "GitCommandError"],
      [NoFault EXCEPT !.remotes = "error"],
      [NoFault EXCEPT !.status = "GitCommandError"] }

\* the fact mappings the callers of this object pass to set_facts
StateFactInputs ==
    { [k \in {"github_actions_checked", "other"} |->
          IF k = "other" THEN 1 ELSE TRUE] }

InitState ==
    /\ fs \in {w \in AnyWorlds : NewRepoState(w, NoFault).raised = None}
    /\ st = NewRepoState(fs, NoFault).st
    /\ facts = NoFacts
    /\ actions = get_all_actions
    /\ applicable_actions = <<>>
    /\ menu = <<>>
    /\ pc = "harness"
    /\ selected = None
    /\ success = "none"
    /\ pre = [st |-> st, facts |-> facts]
    /\ refreshed = TRUE
    /\ refreshCalled = FALSE
    /\ refetched = {}
    /\ inRefresh = FALSE
    /\ exitReason = None
    /\ lsRemote = "not_run"
    /\ last = [op |-> "init"]
    /\ interrupt = None
    /\ ServerOff
    /\ NothingStored

sessionVars == <<actions, applicable_actions, menu, pc, selected, success, pre,
                 refreshed, refreshCalled, refetched, inRefresh,
                 exitReason, lsRemote, interrupt, elsewhere>>

\* something other than this object changes the directory
EnvChange ==
    /\ fs' \in AnyWorlds
    /\ last' = [op |-> "env"]
    /\ UNCHANGED <<st, facts, sessionVars>>

\* state.refresh(); `repeat` records that the call before it was a refresh
\* too, with the same outcome of the probes and nothing changed in between
CallRefresh ==
    /\ \E p \in ProbeFaults :
        LET r == RefreshState(st, facts, fs, p)
        IN  /\ st' = r.st
            /\ facts' = r.facts
            /\ last' = [op |-> "refresh", raised |-> r.raised, fault |-> p,
                        repeat |-> (last.op = "refresh" /\ last.fault = p)]
    /\ UNCHANGED <<fs, sessionVars>>

\* state.set_facts(m)
CallSetFacts(inputs) ==
    /\ \E m \in inputs :
        /\ facts' = SetFacts(facts, m)
        /\ last' = [op |-> "set_facts", arg |-> m,
                    overwrote |-> {k \in DOMAIN m \cap DOMAIN facts : facts[k] # m[k]}]
    /\ UNCHANGED <<fs, st, sessionVars>>

\* state.clear_fact(fact_name)
CallClearFact(names) ==
    /\ \E fact_name \in names :
        /\ facts' = ClearFact(facts, fact_name)
        /\ last' = [op |-> "clear_fact", arg |-> fact_name]
    /\ UNCHANGED <<fs, st, sessionVars>>

\* state.clear_facts_matching(prefix)
CallClearFactsMatching(prefixes) ==
    /\ \E prefix \in prefixes :
        /\ facts' = ClearFactsMatching(facts, prefix)
        /\ last' = [op |-> "clear_facts_matching", arg |-> prefix,
                    removed |-> Cardinality(DOMAIN facts) - Cardinality(DOMAIN facts')]
    /\ UNCHANGED <<fs, st, sessionVars>>

NextState ==
    \/ EnvChange
    \/ CallRefresh
    \/ CallSetFacts(StateFactInputs)
    \/ CallClearFact({"other"})
    \/ CallClearFactsMatching({GA_PREFIX})

SpecState == InitState /\ [][NextState]_vars

-----------------------------------------------------------------------------
(* The fact store on its own *)

\* the values a fact of the harness can hold
FactValues(k) ==
    CASE k = "github_actions_checked"       -> {TRUE}
      [] k = "github_actions_latest_status" -> {"success"}
      [] k = "other"                        -> {1}
      [] OTHER                              -> {1, 2}

FactKeys ==
    {"a", "ab", "b", "other", "github_actions_checked", "github_actions_latest_status"}

\* the mappings given to set_facts: one key, or one of the two of the
\* scenarios
FactInputs ==
    UNION { { [x \in {k} |-> v] : v \in FactValues(k) } : k \in FactKeys }
    \cup
    { [k \in {"a", "b"} |-> IF k = "a" THEN 1 ELSE 2],
      [k \in {"github_actions_checked", "github_actions_latest_status", "other"} |->
          CASE k = "github_actions_checked"       -> TRUE
            [] k = "github_actions_latest_status" -> "success"
            [] k = "other"                        -> 1] }

\* the prefixes given to clear_facts_matching
Prefixes == {"", "a", "ab", "abc", "b", "github", GA_PREFIX, "other", "x"}

InitFacts ==
    /\ InitState
    /\ fs = NotARepo({})

NextFacts ==
    \/ CallSetFacts(FactInputs)
    \/ CallClearFact(FactKeys \cup {"x"})
    \/ CallClearFactsMatching(Prefixes)
    \/ CallRefresh

SpecFacts == InitFacts /\ [][NextFacts]_vars

-----------------------------------------------------------------------------
(* Properties of RepoState and its fact store *)

\* C1: refresh() re-derives the fields and never changes the facts: across
\* every call of refresh, whatever the directory has become and whatever the
\* probes raise, the fact store after the call is the fact store before it.
C1_RefreshKeepsFacts ==
    [][last'.op = "refresh" => facts' = facts]_vars

\* a refresh on an object that holds facts found the repository changed and
\* re-derived a field, the facts still there
C1_Witness ==
    /\ last.op = "refresh"
    /\ last.raised = None
    /\ DOMAIN facts = {"github_actions_checked", "other"}
    /\ st.has_commits /\ st.has_remote /\ ~st.is_clean

\* C2: clear_facts_matching(prefix) removes exactly the keys that begin with
\* the prefix and leaves every other fact with its value; of the three facts
\* github_actions_checked, github_actions_latest_status and other, the prefix
\* github_actions_ leaves only other, and of {a: 1, b: 2} the prefix a leaves
\* {b: 2}.
C2_ClearFactsMatchingExact ==
    [][last'.op = "clear_facts_matching" =>
        LET prefix == last'.arg
            Begins(key) ==
                \E n \in 0..Len(key) : key = prefix \o SubSeq(key, n + 1, Len(key))
        IN  /\ DOMAIN facts' = {key \in DOMAIN facts : ~Begins(key)}
            /\ \A key \in DOMAIN facts' : facts'[key] = facts[key]
            /\ ( /\ DOMAIN facts = {"github_actions_checked",
                                     "github_actions_latest_status", "other"}
                 /\ prefix = "github_actions_" )
               => DOMAIN facts' = {"other"}
            /\ ( /\ DOMAIN facts = {"a", "b"} /\ facts["a"] = 1 /\ facts["b"] = 2
                 /\ prefix = "a" )
               => (DOMAIN facts' = {"b"} /\ facts'["b"] = 2)
    ]_vars

\* the scenario: two facts of the namespace were removed and other is what
\* is left
C2_Witness ==
    /\ last.op = "clear_facts_matching"
    /\ last.arg = "github_actions_"
    /\ last.removed = 2
    /\ DOMAIN facts = {"other"}
    /\ facts["other"] = 1

-----------------------------------------------------------------------------
(* Properties of the session *)

\* C3: RefreshGithubActionsAction.execute clears every fact under
\* github_actions_ and only then re-runs the fetch: in every state during and
\* after a refresh, whether the re-fetch succeeds, fails or stops part-way,
\* every github_actions_ fact the store holds is one the re-fetch wrote, so
\* none from before the refresh stands beside one from the re-fetch.
C3_RefreshAllOrNothing ==
    inRefresh =>
        \A key \in DOMAIN facts :
            StartsWith(key, GA_PREFIX) => key \in refetched

\* a refresh whose re-fetch stored the latest run and then failed on the
\* jobs: the job facts of before the refresh are gone
C3_Witness ==
    /\ inRefresh /\ pc = "post" /\ success = "false"
    /\ "github_actions_latest_failed_count" \in DOMAIN pre.facts
    /\ "github_actions_latest_run_id" \in DOMAIN facts
    /\ "github_actions_latest_failed_count" \notin DOMAIN facts

\* C4: for a git repository with a GitHub remote, the fetch action is
\* applicable and the refresh action is not while github_actions_checked is
\* absent; once a fetch has set it the fetch is no longer applicable and the
\* refresh is; the two are never applicable together.
C4_FetchThenRefresh ==
    /\ [](LET github == st.is_git_repo /\ GetRemoteType(st) = "github"
              checked == "github_actions_checked" \in DOMAIN facts
              fetch == FetchGithubActions_is_applicable(st, facts)
              refresh == RefreshGithubActions_is_applicable(st, facts)
          IN  /\ github => ((fetch <=> ~checked) /\ (refresh <=> checked))
              /\ ~(fetch /\ refresh))
    /\ [][(/\ "github_actions_checked" \notin DOMAIN facts
           /\ "github_actions_checked" \in DOMAIN facts'
           /\ st'.is_git_repo /\ GetRemoteType(st') = "github")
          => (/\ ~FetchGithubActions_is_applicable(st', facts')
              /\ RefreshGithubActions_is_applicable(st', facts'))]_vars

\* the fetch action has run and set the marker
C4_Witness ==
    /\ pc = "post" /\ selected = "FetchGithubActions" /\ success = "true"
    /\ "github_actions_checked" \notin DOMAIN pre.facts
    /\ "github_actions_checked" \in DOMAIN facts
    /\ st.is_git_repo /\ GetRemoteType(st) = "github"
    /\ RefreshGithubActions_is_applicable(st, facts)
    /\ ~FetchGithubActions_is_applicable(st, facts)

\* C5: the applicable list and the setup and info buckets made from it hold
\* exactly the registered actions whose is_applicable is true (each bucket
\* those of its category), in the order of the registration list.
C5_ApplicableInOrder ==
    (pc = "prompt" \/ (pc = "done" /\ exitReason = "no_actions")) =>
        LET Elems(seq) == {seq[i] : i \in 1..Len(seq)}
            Pos(a) == CHOOSE i \in 1..Len(actions) : actions[i] = a
            InOrder(sub) ==
                /\ Elems(sub) \subseteq Elems(actions)
                /\ \A i, j \in 1..Len(sub) : i < j => Pos(sub[i]) < Pos(sub[j])
            applicable ==
                {a \in Elems(actions) : IsApplicable(a, st, facts, lsRemote)}
            setup_actions == SetupActions(applicable_actions)
            info_actions == InfoActions(applicable_actions)
        IN  /\ InOrder(applicable_actions)
            /\ Elems(applicable_actions) = applicable
            /\ InOrder(setup_actions)
            /\ Elems(setup_actions) = {a \in applicable : Category(a) = "setup"}
            /\ InOrder(info_actions)
            /\ Elems(info_actions) = {a \in applicable : Category(a) = "info"}

\* a pass over a list that has info actions registered among the setup ones
\* kept some of each and dropped others
C5_Witness ==
    /\ pc = "prompt"
    /\ actions = interleaved_actions
    /\ Len(applicable_actions) < Len(actions)
    /\ Len(SetupActions(applicable_actions)) >= 2
    /\ Len(InfoActions(applicable_actions)) >= 2

\* C6, as stated: in every menu cycle the applicable setup actions are
\* presented before the applicable info actions and an exit choice is
\* offered, whichever actions, if any, are applicable.
C6_ExitAlwaysOffered ==
    (pc = "prompt" \/ (pc = "done" /\ exitReason = "no_actions")) =>
        /\ \E i \in 1..Len(menu) : menu[i] = ExitRow
        /\ \A i, j \in 1..Len(menu) :
              (/\ menu[i] # ExitRow /\ menu[j] # ExitRow
               /\ Category(menu[i].action) = "setup"
               /\ Category(menu[j].action) = "info") => i < j

\* C6, amended: in every menu cycle with at least one applicable action the
\* menu presents every applicable action, the setup ones before the info
\* ones, and the exit choice last; in a cycle with no applicable action no
\* menu and no exit choice is presented and the session ends.
C6_ExitOfferedWithActions ==
    /\ pc = "prompt" =>
          /\ applicable_actions # <<>>
          /\ Len(menu) = Len(applicable_actions) + 1
          /\ menu[Len(menu)] = ExitRow
          /\ {menu[i].action : i \in 1..(Len(menu) - 1)} =
                {applicable_actions[i] : i \in 1..Len(applicable_actions)}
          /\ \A i, j \in 1..(Len(menu) - 1) :
                (/\ Category(menu[i].action) = "setup"
                 /\ Category(menu[j].action) = "info") => i < j
    /\ (pc = "done" /\ exitReason = "no_actions") =>
          (applicable_actions = <<>> /\ menu = <<>>)

\* a menu with setup rows, info rows and the exit row
C6_Witness ==
    /\ pc = "prompt"
    /\ actions = get_all_actions
    /\ Len(menu) >= 4
    /\ Category(menu[1].action) = "setup"
    /\ Category(menu[Len(menu) - 1].action) = "info"
    /\ menu[Len(menu)] = ExitRow

\* C7: after execute of the chosen action the driver calls state.refresh()
\* before the next applicability pass if and only if execute returned true.
C7_RefreshIffSuccess ==
    (pc \in {"pause", "select", "done"} /\ success # "none") =>
        (refreshCalled <=> success = "true")

\* an execute that returned False after it changed the repository: the cycle
\* ends with no refresh and the fields as they were
C7_Witness ==
    /\ pc = "pause" /\ success = "false" /\ ~refreshCalled
    /\ selected = "SetupRemote"
    /\ fs.remote # None /\ ~st.has_remote

\* C8: on each iteration of the driver loop RepoState is refreshed before the
\* selector computes the applicable actions of that iteration: no
\* applicability pass runs on a state that an execute has run on since
\* _detect_state last ran.
C8_RefreshedBeforeSelect ==
    (pc = "prompt" \/ (pc = "done" /\ exitReason = "no_actions")) => refreshed

\* C9, as stated: whenever execute returns false, the fields and the facts
\* of the RepoState are what they were before the call.
C9_FailedLeavesStateUntouched ==
    (pc = "post" /\ success = "false") => (st = pre.st /\ facts = pre.facts)

\* C9, amended: whenever execute returns false the fields of the RepoState
\* are what they were before the call and the driver changes neither fields
\* nor facts; the facts differ from before only after the fetch or the refresh
\* action, which return false with the namespace cleared or partly written.
C9_FailedKeepsFields ==
    /\ []((pc = "post" /\ success = "false") =>
            /\ st = pre.st
            /\ facts # pre.facts =>
                  selected \in {"FetchGithubActions", "RefreshGithubActions"})
    /\ [][(pc = "post" /\ success = "false") => (st' = st /\ facts' = facts)]_vars

\* a refresh whose re-fetch failed: false, the fields as before, the
\* namespace cleared
C9_Witness ==
    /\ pc = "post" /\ success = "false" /\ selected = "RefreshGithubActions"
    /\ st = pre.st
    /\ "github_actions_checked" \in DOMAIN pre.facts
    /\ facts = NoFacts

\* C10: for every registered action and every external failure inside it,
\* execute returns false and no exception leaves execute for the driver:
\* what the driver gets back is a boolean.
C10_NoExceptionLeavesExecute ==
    pc = "post" => success \in {"true", "false"}

-----------------------------------------------------------------------------
(* get_remote_type on its own *)

\* the objects get_remote_type is called on: a repository with or without a
\* remote; without one the URL is None or the URL of a remote seen earlier
InitRemoteType ==
    /\ fs = NotARepo({})
    /\ \E h \in BOOLEAN, c \in BOOLEAN, u \in TypeUrls \cup {None, ""} :
          /\ h => u # None
          /\ st = [InitialFields EXCEPT !.is_git_repo = TRUE, !.has_commits = c,
                                        !.has_remote = h, !.remote_url = u]
    /\ facts = NoFacts
    /\ actions = get_all_actions
    /\ applicable_actions = <<>>
    /\ menu = <<>>
    /\ pc = "harness"
    /\ selected = None
    /\ success = "none"
    /\ pre = [st |-> st, facts |-> facts]
    /\ refreshed = TRUE
    /\ refreshCalled = FALSE
    /\ refetched = {}
    /\ inRefresh = FALSE
    /\ exitReason = None
    /\ lsRemote = "not_run"
    /\ last = [op |-> "init"]
    /\ interrupt = None
    /\ ServerOff
    /\ NothingStored

\* state.get_remote_type()
CallGetRemoteType ==
    /\ last' = [op |-> "get_remote_type", result |-> GetRemoteType(st)]
    /\ UNCHANGED <<fs, st, facts, sessionVars>>

NextRemoteType == CallGetRemoteType

SpecRemoteType == InitRemoteType /\ [][NextRemoteType]_vars

-----------------------------------------------------------------------------
(* Properties of the structural fields *)

\* C11: refresh() is idempotent: a refresh that follows a refresh, with no
\* change of the directory or the repository in between, leaves every field
\* and every fact as the first one left them.
C11_RefreshIdempotent ==
    [][(last'.op = "refresh" /\ last'.repeat) =>
          (st' = st /\ facts' = facts /\ last'.raised = last.raised)]_vars

\* a second refresh in a row on a repository with commits and a dirty working
\* tree
C11_Witness ==
    /\ last.op = "refresh" /\ last.repeat /\ last.raised = None
    /\ st.has_commits /\ ~st.is_clean
    /\ st.untracked_files # <<>> /\ st.modified_files # <<>>

\* C12: refresh() re-derives every structural field from what the repository
\* holds now: after a refresh each field equals what a RepoState newly
\* constructed on the same path holds, whatever the field held before.
C12_RefreshRederivesAll ==
    (last.op = "refresh" /\ last.fault = NoFault /\ last.raised = None) =>
        st = NewRepoState(fs, NoFault).st

\* C13: in every RepoState, after construction and after any refresh,
\* is_git_repo false implies that every other field holds its default.
C13_NotRepoHasDefaults ==
    ~st.is_git_repo => st = InitialFields

\* C14: constructing or refreshing a RepoState never raises, for a path that
\* is no repository and for a path that is missing: it ends with is_git_repo
\* false.
C14_NeverRaisesOffRepo ==
    (last.op = "refresh" /\ ~fs.is_repo) => (last.raised = None /\ ~st.is_git_repo)

\* C15: in every RepoState has_commits false implies branch_name None,
\* is_clean true and untracked_files and modified_files empty, also after a
\* refresh from a state that had commits or a dirty working tree.
C15_NoCommitsHasCleanStatus ==
    ~st.has_commits =>
        /\ st.branch_name = None
        /\ st.is_clean
        /\ st.untracked_files = <<>>
        /\ st.modified_files = <<>>

\* C16: during a refresh of a valid repository the failure of one probe
\* degrades the fields of that probe only; the refresh evaluates the other
\* probes and returns without raising, whatever the failure is, a branch
\* lookup that fails although commits exist included.
C16_ProbeFailureContained ==
    (last.op = "refresh" /\ fs.exists /\ fs.is_repo) =>
        /\ last.raised = None
        /\ st.has_readme = NewRepoState(fs, NoFault).st.has_readme
        /\ st.has_gitignore = NewRepoState(fs, NoFault).st.has_gitignore

\* C17: get_remote_type classifies the remote without regard to case: no
\* remote or no URL gives None; a URL containing github.com gives github;
\* otherwise one containing gitlab gives gitlab; any other URL gives unknown;
\* the result is always one of the four.
C17_RemoteTypeClassified ==
    last.op = "get_remote_type" =>
        LET url == st.remote_url
            Has(t) ==
                \E i \in 1..(Len(url) - Len(t) + 1) :
                    \A k \in 1..Len(t) :
                        LowerChar(SubSeq(url, i + k - 1, i + k - 1)) = SubSeq(t, k, k)
            present == st.has_remote /\ url # None /\ url # ""
        IN  /\ last.result \in {None, "github", "gitlab", "unknown"}
            /\ last.result = None <=> ~present
            /\ last.result = "github" <=> (present /\ Has("github.com"))
            /\ last.result = "gitlab" <=>
                  (present /\ ~Has("github.com") /\ Has("gitlab"))
            /\ last.result = "unknown" <=>
                  (present /\ ~Has("github.com") /\ ~Has("gitlab"))

\* a self-hosted GitLab spelt in capitals
C17_Witness ==
    /\ last.op = "get_remote_type"
    /\ st.remote_url = "https://GITLAB.example.org/r"
    /\ last.result = "gitlab"

-----------------------------------------------------------------------------
(* Properties of is_applicable *)

\* C18: is_applicable of every registered action is a pure predicate of the
\* fields and the facts: an applicability pass runs no subprocess and no
\* network request, and what each action answers is decided by the fields and
\* the facts alone.
C18_IsApplicablePure ==
    (pc = "prompt" \/ (pc = "done" /\ exitReason = "no_actions")) =>
        /\ lsRemote = "not_run"
        /\ \A i \in 1..Len(actions), p \in LsRemoteOutcomes :
              IsApplicable(actions[i], st, facts, p)
                  = IsApplicable(actions[i], st, facts, lsRemote)

\* C19: InitRepoAction is applicable exactly when is_git_repo is false, and
\* on the state constructed on a directory that is no git repository it is
\* the only applicable action of those get_all_actions registers.
C19_OnlyInitRepoOffRepo ==
    /\ InitRepo_is_applicable(st) <=> ~st.is_git_repo
    /\ pc = "prompt" =>
          ((\E i \in 1..Len(applicable_actions) : applicable_actions[i] = "InitRepo")
              <=> ~st.is_git_repo)
    /\ (pc = "prompt" /\ st = InitialFields /\ facts = NoFacts) =>
          applicable_actions = <<"InitRepo">>

\* the first menu in a directory that is no repository and holds a README and
\* a .gitignore
C19_Witness ==
    /\ pc = "prompt" /\ actions = get_all_actions
    /\ ~fs.is_repo /\ fs.files = FileNames
    /\ st = InitialFields /\ facts = NoFacts
    /\ applicable_actions = <<"InitRepo">>

\* C20: for a repository with commits, no README, no .gitignore, no remote
\* and no facts the applicable actions are exactly AddReadme, AddGitignore
\* and SetupRemote; InitRepo and InitialCommit are not among them.
C20_CommitsNoFilesNoRemote ==
    ( /\ pc = "prompt"
      /\ st.is_git_repo /\ st.has_commits
      /\ ~st.has_readme /\ ~st.has_gitignore /\ ~st.has_remote
      /\ facts = NoFacts ) =>
        {applicable_actions[i] : i \in 1..Len(applicable_actions)}
            = {"AddReadme", "AddGitignore", "SetupRemote"}

\* the menu on such a repository
C20_Witness ==
    /\ pc = "prompt" /\ actions = get_all_actions
    /\ fs.is_repo /\ fs.has_commits /\ fs.files = {} /\ fs.remote = None
    /\ st.is_git_repo /\ st.has_commits
    /\ ~st.has_readme /\ ~st.has_gitignore /\ ~st.has_remote
    /\ facts = NoFacts
    /\ applicable_actions = <<"AddReadme", "AddGitignore", "SetupRemote">>

\* C21: AddReadmeAction is applicable exactly when is_git_repo is true and
\* has_readme is false, AddGitignoreAction exactly when is_git_repo is true
\* and has_gitignore is false: neither is offered in a directory that is no
\* repository or when its file is there already.
C21_AddFileActions ==
    LET Offered(a) ==
            \E i \in 1..Len(applicable_actions) : applicable_actions[i] = a
    IN  /\ AddReadme_is_applicable(st) <=> (st.is_git_repo /\ ~st.has_readme)
        /\ AddGitignore_is_applicable(st) <=> (st.is_git_repo /\ ~st.has_gitignore)
        /\ pc = "prompt" =>
              /\ Offered("AddReadme") <=> (st.is_git_repo /\ ~st.has_readme)
              /\ Offered("AddGitignore") <=> (st.is_git_repo /\ ~st.has_gitignore)

\* a menu on a repository that has a .gitignore and no README
C21_Witness ==
    /\ pc = "prompt"
    /\ st.is_git_repo /\ ~st.has_readme /\ st.has_gitignore
    /\ \E i \in 1..Len(applicable_actions) : applicable_actions[i] = "AddReadme"
    /\ \A i \in 1..Len(applicable_actions) : applicable_actions[i] # "AddGitignore"

\* C22: set_facts(m) is a bulk merge: afterwards every key of m maps to the
\* value m gives it, every other key keeps its value, no key is removed and
\* no structural field changes.
C22_SetFactsMerges ==
    [][last'.op = "set_facts" =>
        LET m == last'.arg
        IN  /\ DOMAIN facts' = DOMAIN facts \cup DOMAIN m
            /\ \A k \in DOMAIN m : facts'[k] = m[k]
            /\ \A k \in DOMAIN facts \ DOMAIN m : facts'[k] = facts[k]
            /\ st' = st
    ]_vars

\* a merge that gave a key a new value and left another key alone
C22_Witness ==
    /\ last.op = "set_facts"
    /\ last.overwrote = {"a"}
    /\ facts["a"] = 2
    /\ "other" \in DOMAIN facts /\ "other" \notin DOMAIN last.arg

-----------------------------------------------------------------------------
(* The MCP server (mcp_server.py): handle_message reads standard input line
   by line and prints one JSON-RPC response for each line *)

MaxLines == 3

ToolNames ==
    {"download_job_traces", "list_github_actions_runs", "get_github_actions_run_jobs",
     "download_github_actions_job_logs", "check_github_actions_job_status"}

Ids == {None, "id1"}

\* a line whose text is a JSON object
Request(id, method, name, arguments, form) ==
    [kind |-> "object", id |-> id, method |-> method, name |-> name,
     arguments |-> arguments, form |-> form]

\* the lines a client sends: bytes that are not UTF-8, text that is not JSON
\* (the empty line too), JSON that is not an object, and requests, with or
\* without an id, a method, a tool name and the arguments run_id and job_id;
\* `form` tells that "params" or "arguments" holds something other than an
\* object
Lines ==
    { [NoLine EXCEPT !.kind = k] : k \in {"undecodable", "not_json", "not_object"} }
    \cup { Request(id, m, None, {}, "ok") :
             id \in Ids, m \in {None, "initialize", "tools/list", "ping"} }
    \cup { Request(id, "tools/call", n, {}, "ok") :
             id \in Ids, n \in {None, "no_such_tool", "download_job_traces",
                                "list_github_actions_runs"} }
    \cup { Request(id, "tools/call", n, a, "ok") :
             id \in Ids, n \in {"get_github_actions_run_jobs",
                                "check_github_actions_job_status"},
             a \in {{}, {"run_id"}} }
    \cup { Request(id, "tools/call", "download_github_actions_job_logs", a, "ok") :
             id \in Ids, a \in SUBSET {"run_id", "job_id"} }
    \cup { Request(id, "tools/call", None, {}, "params_not_object") : id \in Ids }
    \cup { Request(id, "tools/call", "get_github_actions_run_jobs", {},
                   "arguments_not_object") : id \in Ids }

\* what the world does to a tool that runs: RepoState(path) raises, or the
\* method of the action returns None or a value.  The action prints to its
\* rich Console, which writes to standard output: always before it returns
\* None, and on some of the paths that return a value
ToolOutcomes ==
    { [repo |-> "raises", answer |-> "none", printed |-> FALSE],
      [repo |-> "ok", answer |-> "none", printed |-> TRUE] }
    \cup { [repo |-> "ok", answer |-> "value", printed |-> b] : b \in BOOLEAN }

\* a response, with what producing it ran; code 0 stands for a "result"
Response(code, id, done, printed) ==
    [code |-> code, id |-> id, ran |-> done, printed |-> printed, raised |-> FALSE]

\* an exception that leaves process_message
Raised == [code |-> 0, id |-> None, ran |-> {}, printed |-> FALSE, raised |-> TRUE]

\* lines 160-169 and 186-195
ParseErrorResponse_internal == Response(-32603, None, {}, FALSE)

ParseErrorResponse == Response(-32700, None, {}, FALSE)

\* lines 170-179 and 196-205
InternalErrorResponse == Response(-32603, None, {}, FALSE)

\* the path every tool has after its argument check: RepoState(path), the
\* method of the action, and the three ways it ends
RunTool(msg_id, env) ==
    IF env.repo = "raises"
    THEN Response(-32603, msg_id, {"RepoState"}, FALSE)
    ELSE Response(IF env.answer = "none" THEN -32603 ELSE 0, msg_id,
                  {"RepoState", "github"}, env.printed)

\* call_download_job_traces running execute without asking is_applicable
call_download_job_traces_unasked(tool_input, form, msg_id, env) ==
    IF form = "arguments_not_object"
    THEN Response(-32603, msg_id, {}, FALSE)
    ELSE IF env.repo = "raises"
    THEN Response(-32603, msg_id, {"RepoState"}, FALSE)
    ELSE Response(0, msg_id, {"RepoState", "github"}, env.printed)

\* call_download_job_traces: the RepoState is new, its facts are empty, and
\* is_applicable decides on the facts
call_download_job_traces(tool_input, form, msg_id, env) ==
    IF form = "arguments_not_object"
    THEN Response(-32603, msg_id, {}, FALSE)
    ELSE IF env.repo = "raises"
    THEN Response(-32603, msg_id, {"RepoState"}, FALSE)
    ELSE IF ~DownloadJobTraces_is_applicable(NoFacts)
    THEN Response(0, msg_id, {"RepoState"}, FALSE)
    ELSE Response(0, msg_id, {"RepoState", "github"}, env.printed)

\* call_list_github_actions_runs
call_list_github_actions_runs(tool_input, form, msg_id, env) ==
    IF form = "arguments_not_object"
    THEN Response(-32603, msg_id, {}, FALSE)
    ELSE RunTool(msg_id, env)

\* call_get_github_actions_run_jobs with the argument check after RepoState(path)
call_get_github_actions_run_jobs_checksLate(tool_input, form, msg_id, env) ==
    IF form = "arguments_not_object"
    THEN Response(-32603, msg_id, {}, FALSE)
    ELSE IF env.repo = "raises"
    THEN Response(-32603, msg_id, {"RepoState"}, FALSE)
    ELSE IF "run_id" \notin tool_input
    THEN Response(-32602, msg_id, {"RepoState"}, FALSE)
    ELSE RunTool(msg_id, env)

\* call_get_github_actions_run_jobs
call_get_github_actions_run_jobs(tool_input, form, msg_id, env) ==
    IF form = "arguments_not_object"
    THEN Response(-32603, msg_id, {}, FALSE)
    ELSE IF "run_id" \notin tool_input
    THEN Response(-32602, msg_id, {}, FALSE)
    ELSE RunTool(msg_id, env)

\* call_download_github_actions_job_logs
call_download_github_actions_job_logs(tool_input, form, msg_id, env) ==
    IF form = "arguments_not_object"
    THEN Response(-32603, msg_id, {}, FALSE)
    ELSE IF "run_id" \notin tool_input \/ "job_id" \notin tool_input
    THEN Response(-32602, msg_id, {}, FALSE)
    ELSE RunTool(msg_id, env)

\* call_check_github_actions_job_status
call_check_github_actions_job_status(tool_input, form, msg_id, env) ==
    IF form = "arguments_not_object"
    THEN Response(-32603, msg_id, {}, FALSE)
    ELSE IF "run_id" \notin tool_input
    THEN Response(-32602, msg_id, {}, FALSE)
    ELSE RunTool(msg_id, env)

\* handle_call_tool sending an unknown name to the first tool
handle_call_tool_firstTool(params, msg_id, env) ==
    IF params.form = "params_not_object"
    THEN Raised
    ELSE LET tool_name == params.name
             tool_input == params.arguments
         IN  CASE tool_name = "list_github_actions_runs" ->
                    call_list_github_actions_runs(tool_input, params.form, msg_id, env)
               [] tool_name = "get_github_actions_run_jobs" ->
                    call_get_github_actions_run_jobs(tool_input, params.form, msg_id, env)
               [] tool_name = "download_github_actions_job_logs" ->
                    call_download_github_actions_job_logs(tool_input, params.form,
                                                          msg_id, env)
               [] tool_name = "check_github_actions_job_status" ->
                    call_check_github_actions_job_status(tool_input, params.form,
                                                         msg_id, env)
               [] OTHER ->
                    call_download_job_traces(tool_input, params.form, msg_id, env)

\* handle_call_tool: params.get raises AttributeError when params is not an
\* object, and nothing in handle_call_tool or process_message catches it
handle_call_tool(params, msg_id, env) ==
    IF params.form = "params_not_object"
    THEN Raised
    ELSE LET tool_name == params.name
             tool_input == params.arguments
         IN  CASE tool_name = "download_job_traces" ->
                    call_download_job_traces(tool_input, params.form, msg_id, env)
               [] tool_name = "list_github_actions_runs" ->
                    call_list_github_actions_runs(tool_input, params.form, msg_id, env)
               [] tool_name = "get_github_actions_run_jobs" ->
                    call_get_github_actions_run_jobs(tool_input, params.form, msg_id, env)
               [] tool_name = "download_github_actions_job_logs" ->
                    call_download_github_actions_job_logs(tool_input, params.form,
                                                          msg_id, env)
               [] tool_name = "check_github_actions_job_status" ->
                    call_check_github_actions_job_status(tool_input, params.form,
                                                         msg_id, env)
               [] OTHER -> Response(-32601, msg_id, {}, FALSE)

\* process_message
process_message(message, env) ==
    LET method == message.method
        msg_id == message.id
    IN  CASE method = "initialize" -> Response(0, msg_id, {}, FALSE)
          [] method = "tools/list" -> Response(0, msg_id, {}, FALSE)
          [] method = "tools/call" -> handle_call_tool(message, msg_id, env)
          [] OTHER                 -> Response(-32601, msg_id, {}, FALSE)

\* the body of the loop of lines 181-205: what one line is answered with
HandleLine(l, env) ==
    CASE l.kind = "not_json" -> ParseErrorResponse
      [] l.kind = "not_object" -> InternalErrorResponse
      [] OTHER ->
            LET response == process_message(l, env)
            IN  IF response.raised
                THEN [InternalErrorResponse EXCEPT !.ran = response.ran,
                                                   !.printed = response.printed]
                ELSE response

\* the refusing loop answering initialize as the handling loop does
RejectLine_answersInitialize(l) ==
    CASE l.kind = "not_json" -> ParseErrorResponse
      [] l.kind = "not_object" -> InternalErrorResponse
      [] l.method = "initialize" -> Response(0, l.id, {}, FALSE)
      [] OTHER -> Response(-32603, l.id, {}, FALSE)

\* the body of the loop of lines 148-179: every line that parses is refused
RejectLine(l) ==
    CASE l.kind = "not_json" -> ParseErrorResponse
      [] l.kind = "not_object" -> InternalErrorResponse
      [] OTHER -> Response(-32603, l.id, {}, FALSE)

\* what the Console of an action prints while the line numbered n is handled
ConsoleLine(n) == [kind |-> "console", for |-> n, code |-> 0, id |-> None]

\* print(json.dumps(response), flush=True) that is silent for a request
\* without an id
PrintResponse_skipsNotifications(out, n, r) ==
    (IF r.printed THEN Append(out, ConsoleLine(n)) ELSE out)
    \o (IF r.id = None THEN <<>>
        ELSE <<[kind |-> "response", for |-> n, code |-> r.code, id |-> r.id]>>)

\* print(json.dumps(response), flush=True), after what the action printed
PrintResponse(out, n, r) ==
    (IF r.printed THEN Append(out, ConsoleLine(n)) ELSE out)
    \o <<[kind |-> "response", for |-> n, code |-> r.code, id |-> r.id]>>

coreVars == <<fs, st, facts, actions, applicable_actions, menu, pc, selected, success,
              pre, refreshed, refreshCalled, refetched, inRefresh, exitReason,
              lsRemote, last, interrupt>>

\* MCPServer() and the call of handle_message: _check_dev_installation_safety
\* has set dev_installation_error or left it None
\* the interactive session is not running
NoSession ==
    /\ fs = NotARepo({})
    /\ st = InitialFields
    /\ facts = NoFacts
    /\ actions = get_all_actions
    /\ applicable_actions = <<>>
    /\ menu = <<>>
    /\ pc = "off"
    /\ selected = None
    /\ success = "none"
    /\ pre = [st |-> st, facts |-> facts]
    /\ refreshed = TRUE
    /\ refreshCalled = FALSE
    /\ refetched = {}
    /\ inRefresh = FALSE
    /\ exitReason = None
    /\ lsRemote = "not_run"
    /\ last = [op |-> "none"]
    /\ interrupt = None

\* what _check_dev_installation_safety finds: inspect.getfile and the path
\* calls work or raise, the module path holds .git or pyproject.toml, the
\* working directory is the module path or below it
StartUps ==
    [probe : {"ok", "raises"}, is_dev : BOOLEAN, cwd_inside : BOOLEAN]

\* _check_dev_installation_safety, lines 112-142: whether it sets
\* dev_installation_error; an exception of the check is swallowed
check_dev_installation_safety(env) ==
    env.probe = "ok" /\ env.is_dev /\ env.cwd_inside

InitServer ==
    /\ NoSession
    /\ NothingStored
    /\ dev_installation_error \in {check_dev_installation_safety(env) : env \in StartUps}
    /\ stdin_errors \in {"strict", "surrogateescape"}
    /\ serving = "reading"
    /\ nread = 0
    /\ line = NoLine
    /\ stdout = <<>>
    /\ ran = {}

\* `for line in sys.stdin` gives the next line.  Bytes that are not UTF-8
\* make the iterator raise UnicodeDecodeError, outside the try, under the
\* strict handler; under the handler the C locale selects they decode to
\* surrogates and the line is text of one of the other kinds
ReadLine ==
    /\ serving = "reading"
    /\ nread < MaxLines
    /\ \E l \in Lines :
        IF l.kind = "undecodable"
        THEN /\ stdin_errors = "strict"
             /\ serving' = "crashed"
             /\ UNCHANGED <<nread, line, ran>>
        ELSE /\ serving' = "handling"
             /\ nread' = nread + 1
             /\ line' = l
             /\ ran' = {}
    /\ UNCHANGED <<coreVars, tokenVars, dev_installation_error, stdin_errors, stdout>>

\* standard input is at its end: the loop and handle_message return
EndOfInput ==
    /\ serving = "reading"
    /\ serving' = "eof"
    /\ UNCHANGED <<coreVars, tokenVars, dev_installation_error, stdin_errors, nread,
                   line, stdout, ran>>

\* lines 148-179
Reject ==
    /\ serving = "handling"
    /\ dev_installation_error
    /\ LET r == RejectLine(line)
       IN  /\ stdout' = PrintResponse(stdout, nread, r)
           /\ ran' = r.ran
    /\ serving' = "reading"
    /\ UNCHANGED <<coreVars, tokenVars, dev_installation_error, stdin_errors, nread,
                   line>>

\* lines 181-205
Process ==
    /\ serving = "handling"
    /\ ~dev_installation_error
    /\ \E env \in ToolOutcomes :
        LET r == HandleLine(line, env)
        IN  /\ stdout' = PrintResponse(stdout, nread, r)
            /\ ran' = r.ran
    /\ serving' = "reading"
    /\ UNCHANGED <<coreVars, tokenVars, dev_installation_error, stdin_errors, nread,
                   line>>

NextServer ==
    \/ ReadLine
    \/ EndOfInput
    \/ Reject
    \/ Process

SpecServer == InitServer /\ [][NextServer]_vars

-----------------------------------------------------------------------------
(* Properties of the MCP server *)

\* the JSON-RPC responses among the lines of standard output
Responses == SelectSeq(stdout, LAMBDA e : e.kind = "response")

\* what standard output received while the line read last was handled
Answer == SelectSeq(stdout, LAMBDA e : e.kind = "response" /\ e.for = nread)

\* the line read last has been handled
Answered == serving # "handling" /\ nread > 0

\* C23: every line the loop of handle_message is given is answered with
\* exactly one JSON-RPC response, never none and never two, and the responses
\* are written in the order of the lines: when no line is being handled the
\* responses on standard output are as many as the lines read, the i-th being
\* the response to the i-th line, and while a line is handled only that line
\* is unanswered.
C23_OneResponsePerLine ==
    /\ Len(Responses) = IF serving = "handling" THEN nread - 1 ELSE nread
    /\ \A i \in 1..Len(Responses) : Responses[i].for = i

\* three lines were read and answered, with a parse error, an internal error
\* and a result among the answers, and the input has ended
C23_Witness ==
    /\ serving = "eof"
    /\ nread = MaxLines
    /\ Len(Responses) = MaxLines
    /\ {-32700, -32603, 0} \subseteq {Responses[i].code : i \in 1..Len(Responses)}

\* C24: a line that is not valid JSON is answered with the single error
\* response of code -32700 and id null, whether the server handles requests
\* or refuses them because of the development installation.
C24_ParseErrorForInvalidJson ==
    (Answered /\ line.kind = "not_json") =>
        Answer = <<[kind |-> "response", for |-> nread, code |-> -32700, id |-> None]>>

\* the refusing server has answered a line that is not JSON, after another line
C24_Witness ==
    /\ dev_installation_error
    /\ Answered
    /\ nread = 2
    /\ line.kind = "not_json"
    /\ stdout[Len(stdout)].code = -32700

\* the method of the request is none of the three the server knows
UnknownMethod(l) ==
    l.kind = "object" /\ l.method \notin {"initialize", "tools/list", "tools/call"}

\* a tools/call whose params are an object (or absent) naming none of the tools
UnknownTool(l) ==
    /\ l.kind = "object"
    /\ l.method = "tools/call"
    /\ l.form # "params_not_object"
    /\ l.name \notin ToolNames

\* C25 as stated: a request of an unknown method, and a tools/call of an
\* unknown tool, is answered with code -32601 and the id of the request, and
\* no tool handler runs.
C25_NotFoundInEveryMode ==
    (Answered /\ (UnknownMethod(line) \/ UnknownTool(line))) =>
        /\ Answer = <<[kind |-> "response", for |-> nread, code |-> -32601,
                       id |-> line.id]>>
        /\ ran = {}

\* C25, amended: a request of an unknown method, and a tools/call of an
\* unknown tool, is answered with the id of the request and without any tool
\* handler running; the code is -32601 when the server handles requests and
\* -32603 when it refuses them because of the development installation.
C25_NotFoundUnlessRefusing ==
    (Answered /\ (UnknownMethod(line) \/ UnknownTool(line))) =>
        /\ Answer = <<[kind |-> "response", for |-> nread,
                       code |-> IF dev_installation_error THEN -32603 ELSE -32601,
                       id |-> line.id]>>
        /\ ran = {}

\* the server that handles requests has answered a tools/call of an unknown
\* tool that carries an id, after another line
C25_Witness ==
    /\ ~dev_installation_error
    /\ Answered
    /\ nread = 2
    /\ UnknownTool(line)
    /\ line.name = "no_such_tool"
    /\ line.id = "id1"
    /\ stdout[Len(stdout)].code = -32601

\* a tools/call whose arguments are an object (or absent) without a required
\* argument of the tool
MissingRequired(l) ==
    /\ l.kind = "object"
    /\ l.method = "tools/call"
    /\ l.form = "ok"
    /\ \/ /\ l.name \in {"get_github_actions_run_jobs", "check_github_actions_job_status"}
          /\ "run_id" \notin l.arguments
       \/ /\ l.name = "download_github_actions_job_logs"
          /\ ~({"run_id", "job_id"} \subseteq l.arguments)

\* C26 as stated: a tools/call that omits a required argument is answered
\* with code -32602 and the id of the request, before any RepoState is
\* constructed or any GitHub call is made.
C26_InvalidParamsInEveryMode ==
    (Answered /\ MissingRequired(line)) =>
        /\ Answer = <<[kind |-> "response", for |-> nread, code |-> -32602,
                       id |-> line.id]>>
        /\ ran = {}

\* C26, amended: a tools/call whose arguments object omits a required
\* argument is answered with the id of the request, and neither a RepoState
\* is constructed nor GitHub called; the code is -32602 when the server
\* handles requests and -32603 when it refuses them because of the
\* development installation.
C26_InvalidParamsUnlessRefusing ==
    (Answered /\ MissingRequired(line)) =>
        /\ Answer = <<[kind |-> "response", for |-> nread,
                       code |-> IF dev_installation_error THEN -32603 ELSE -32602,
                       id |-> line.id]>>
        /\ ran = {}

\* the server that handles requests has answered a call of
\* get_github_actions_run_jobs that has an id and no run_id, after another line
C26_Witness ==
    /\ ~dev_installation_error
    /\ Answered
    /\ nread = 2
    /\ MissingRequired(line)
    /\ line.name = "get_github_actions_run_jobs"
    /\ line.id = "id1"
    /\ stdout[Len(stdout)].code = -32602

\* C27: nothing a client sends ends the loop of handle_message: the server
\* stops only at the end of its input, never by an exception that leaves the
\* loop.
C27_LoopEndsOnlyAtEndOfInput == serving # "crashed"

-----------------------------------------------------------------------------
(* Properties of the session under Ctrl-C *)

\* C28 as stated: a KeyboardInterrupt raised anywhere in the session (at the
\* menu prompt, at the "Press Enter" prompt, while an execute runs) ends the
\* session with the goodbye message, and no exception leaves Menu.run.
C28_InterruptEndsSession ==
    interrupt # None => (pc = "done" /\ exitReason = "KeyboardInterrupt")

\* C28, amended: a KeyboardInterrupt raised at the menu prompt, at the "Press
\* Enter" prompt, during the applicability pass, or while the execute of an
\* action without a handler of its own runs, ends the session
\* with the goodbye message; raised while SetupRemoteAction.execute or
\* CreateRemoteRepoAction.execute runs, it is caught there, execute returns
\* False and the session goes on.  In no case does the exception leave
\* Menu.run.
C28_InterruptEndsOrCancels ==
    interrupt # None =>
        IF interrupt = "execute" /\ selected \in CatchesInterrupt
        THEN pc = "post" /\ success = "false" /\ exitReason = None
        ELSE pc = "done" /\ exitReason = "KeyboardInterrupt"

\* the session has ended with the goodbye message after Ctrl-C at the "Press
\* Enter" prompt that follows a successful action
C28_Witness ==
    /\ interrupt = "pause"
    /\ success = "true"
    /\ pc = "done"
    /\ exitReason = "KeyboardInterrupt"

-----------------------------------------------------------------------------
(* Properties of CreateRemoteRepoAction.is_applicable *)

\* the menu on display offers the action
Offered(a) == \E i \in 1..Len(applicable_actions) : applicable_actions[i] = a

\* C30: in the menu on display, with a state that has a remote whose URL
\* contains github.com or gitlab.com, CreateRemoteRepoAction is offered exactly
\* when the ls-remote of the applicability pass did not succeed (a non-zero
\* exit, a timeout and any other error of the probe all offer it, a zero exit
\* does not); it is never offered when the state has no remote or the URL
\* names another host.  Host names are compared without regard to case.
C30_CreateRemoteRepoWhenProbeFails ==
    pc = "prompt" =>
        LET url == st.remote_url
            hosted == /\ url # None
                      /\ \/ Contains(LowerOf[url], "github.com")
                         \/ Contains(LowerOf[url], "gitlab.com")
        IN  /\ (st.has_remote /\ hosted) =>
                (Offered("CreateRemoteRepo") <=> lsRemote \in {"nonzero", "timeout", "error"})
            /\ (~st.has_remote \/ ~hosted) => ~Offered("CreateRemoteRepo")

\* ls-remote timed out for a GitHub remote and the menu offers the action
C30_Witness ==
    /\ pc = "prompt"
    /\ st.has_remote
    /\ st.remote_url # None
    /\ Contains(st.remote_url, "github.com")
    /\ lsRemote = "timeout"
    /\ Offered("CreateRemoteRepo")

-----------------------------------------------------------------------------
(* The token store: SetupRemoteAction._store_token (setup_remote.py 48-78),
   one system call at a time *)

\* bit i of a mode
Bit(n, i) == (n \div (2 ^ i)) % 2

RECURSIVE MaskedFrom(_, _, _)
\* the bits i..8 of mode & ~mask
MaskedFrom(mode, mask, i) ==
    IF i > 8 THEN 0
    ELSE (IF Bit(mode, i) = 1 /\ Bit(mask, i) = 0 THEN 2 ^ i ELSE 0)
         + MaskedFrom(mode, mask, i + 1)

\* the mode a file or directory is created with: mode & ~umask
Created(mode, mask) == MaskedFrom(mode, mask, 0)

\* 0o700, 0o600, and the modes of open(..., "w") and of directories and files
\* made by others: 0o666, 0o755, 0o644; the masks 0o022 and 0o077
Mode700 == 448
Mode600 == 384
Mode666 == 438
Mode755 == 493
Mode644 == 420
Umasks == {18, 63}

Providers == {"github", "gitlab"}
Tokens == {"t1", "t2"}

\* the file before the first call: none, or one the user or an earlier
\* version made, with a line for github or empty, private or not
TokenFiles ==
    { [exists |-> FALSE, mode |-> 0, tokens |-> NoTokens, written |-> FALSE] }
    \cup { [exists |-> TRUE, mode |-> m, tokens |-> t, written |-> FALSE] :
             m \in {Mode600, Mode644},
             t \in {NoTokens, [provider \in {"github"} |-> "t0"]} }

InitToken ==
    /\ NoSession
    /\ ServerOff
    /\ umask \in Umasks
    /\ CONFIG_DIR \in { [exists |-> FALSE, mode |-> 0] }
                      \cup { [exists |-> TRUE, mode |-> m] : m \in {Mode700, Mode755} }
    /\ CONFIG_FILE \in {f \in TokenFiles : f.exists => CONFIG_DIR.exists}
    /\ storing = [at |-> "idle", provider |-> None, token |-> None, tokens |-> NoTokens]

tokenUnchanged == <<coreVars, serverVars, umask>>

\* _get_token, line 135: self._store_token(provider, token)
StoreToken ==
    /\ storing.at = "idle"
    /\ \E provider \in Providers, token \in Tokens :
        storing' = [at |-> "mkdir", provider |-> provider, token |-> token,
                    tokens |-> NoTokens]
    /\ UNCHANGED <<tokenUnchanged, CONFIG_DIR, CONFIG_FILE>>

\* line 50: CONFIG_DIR.mkdir(parents=True, exist_ok=True, mode=0o700)
Mkdir ==
    /\ storing.at = "mkdir"
    /\ CONFIG_DIR' = IF CONFIG_DIR.exists THEN CONFIG_DIR
                     ELSE [exists |-> TRUE, mode |-> Created(Mode700, umask)]
    /\ storing' = [storing EXCEPT !.at = "chmod_dir"]
    /\ UNCHANGED <<tokenUnchanged, CONFIG_FILE>>

\* line 53: os.chmod(CONFIG_DIR, 0o700)
ChmodDir ==
    /\ storing.at = "chmod_dir"
    /\ CONFIG_DIR' = [CONFIG_DIR EXCEPT !.mode = Mode700]
    /\ storing' = [storing EXCEPT !.at = "read"]
    /\ UNCHANGED <<tokenUnchanged, CONFIG_FILE>>

\* lines 56-69: the tokens of the file, none when there is no file or reading
\* it fails, and tokens[provider] = token
ReadTokens ==
    /\ storing.at = "read"
    /\ \E readable \in BOOLEAN :
        LET tokens == IF CONFIG_FILE.exists /\ readable THEN CONFIG_FILE.tokens
                      ELSE NoTokens
        IN  storing' = [storing EXCEPT
                          !.at = "open",
                          !.tokens = [k \in DOMAIN tokens \cup {storing.provider} |->
                                        IF k = storing.provider THEN storing.token
                                        ELSE tokens[k]]]
    /\ UNCHANGED <<tokenUnchanged, CONFIG_DIR, CONFIG_FILE>>

\* line 72: open(CONFIG_FILE, "w") creates the file with 0o666 & ~umask or
\* empties the one that exists, whose mode stays; when it raises, line 77
\* prints the warning
OpenForWriting ==
    /\ storing.at = "open"
    /\ \E opened \in BOOLEAN :
        IF opened
        THEN /\ CONFIG_FILE' =
                    [exists |-> TRUE,
                     mode |-> IF CONFIG_FILE.exists THEN CONFIG_FILE.mode
                              ELSE Created(Mode666, umask),
                     tokens |-> NoTokens,
                     written |-> FALSE]
             /\ storing' = [storing EXCEPT !.at = "write"]
        ELSE /\ CONFIG_FILE' = CONFIG_FILE
             /\ storing' = [at |-> "idle", provider |-> None, token |-> None,
                            tokens |-> NoTokens]
    /\ UNCHANGED <<tokenUnchanged, CONFIG_DIR>>

\* lines 73-74: the lines are written and the file is closed
WriteTokens ==
    /\ storing.at = "write"
    /\ CONFIG_FILE' = [CONFIG_FILE EXCEPT !.tokens = storing.tokens, !.written = TRUE]
    /\ storing' = [storing EXCEPT !.at = "chmod_file"]
    /\ UNCHANGED <<tokenUnchanged, CONFIG_DIR>>

\* line 76: os.chmod(CONFIG_FILE, 0o600), and _store_token returns
ChmodFile ==
    /\ storing.at = "chmod_file"
    /\ CONFIG_FILE' = [CONFIG_FILE EXCEPT !.mode = Mode600]
    /\ storing' = [at |-> "idle", provider |-> None, token |-> None, tokens |-> NoTokens]
    /\ UNCHANGED <<tokenUnchanged, CONFIG_DIR>>

NextToken ==
    \/ StoreToken
    \/ Mkdir
    \/ ChmodDir
    \/ ReadTokens
    \/ OpenForWriting
    \/ WriteTokens
    \/ ChmodFile

SpecToken == InitToken /\ [][NextToken]_vars

-----------------------------------------------------------------------------
(* Properties of the token store *)

\* C29: whenever the token file holds a token that _store_token wrote, the
\* file has mode 0600 and its directory mode 0700, in every state while and
\* after storing, whatever the modes were before.
C29_StoredTokenIsPrivate ==
    (CONFIG_FILE.exists /\ CONFIG_FILE.written /\ CONFIG_FILE.tokens # NoTokens) =>
        (CONFIG_FILE.mode = Mode600 /\ CONFIG_DIR.mode = Mode700)

-----------------------------------------------------------------------------
(* The session from the construction of the Menu on, with a list of actions
   that holds an action of a category other than "setup" and "info" *)

\* the lists given to Menu(state, actions): the registry of cli.py with the
\* action of another category registered last or first
OpenRegistries ==
    { Append(get_all_actions, "UncategorisedAction"),
      <<"UncategorisedAction">> \o get_all_actions }

InitMenu ==
    /\ fs \in SessionWorlds
    /\ st = NewRepoState(fs, NoFault).st
    /\ facts = NoFacts
    /\ actions \in OpenRegistries
    /\ applicable_actions = <<>>
    /\ menu = <<>>
    /\ pc = "new"
    /\ selected = None
    /\ success = "none"
    /\ pre = [st |-> st, facts |-> facts]
    /\ refreshed = TRUE
    /\ refreshCalled = FALSE
    /\ refetched = {}
    /\ inRefresh = FALSE
    /\ exitReason = None
    /\ lsRemote = "not_run"
    /\ last = [op |-> "none"]
    /\ interrupt = None
    /\ ServerOff
    /\ NothingStored

\* Action.__init__ (base.py 14-21) and Menu.__init__ (menu.py 38-41): the
\* list is stored as it is given; no category is looked at
NewMenu ==
    /\ pc = "new"
    /\ pc' = "select"
    /\ applicable_actions' = <<>>
    /\ UNCHANGED <<fs, st, facts, actions, menu, lsRemote, selected, success, pre,
                   refreshed, refreshCalled, refreshGhosts, exitReason, last, interrupt,
                   elsewhere>>

\* execute of the action of another category: it returns True or False and
\* leaves the directory alone
ExecUncategorised ==
    /\ Running("UncategorisedAction")
    /\ \E result \in {"true", "false"} : Return(result)
    /\ UNCHANGED <<fs, st, facts, menuVars, lsRemote, selected, pre, refreshed,
                   refreshCalled, refreshGhosts, exitReason, last, interrupt, elsewhere>>

NextMenu ==
    \/ NewMenu
    \/ ExecUncategorised
    \/ Next

SpecMenu == InitMenu /\ [][NextMenu]_vars

-----------------------------------------------------------------------------
(* Properties of the registry and of the menu numbering *)

\* C31: an action whose category is neither "setup" nor "info" is rejected
\* when it is constructed or registered: every action of the list the driver
\* works with has category setup or info, and no other action is ever offered
\* or executed.
C31_OnlyValidCategories ==
    pc # "new" =>
        \A i \in 1..Len(actions) : Category(actions[i]) \in {"setup", "info"}

\* C32: the action executed when the user enters the number k is the
\* applicable action displayed next to k in the menu.
C32_ExecutesDisplayed ==
    [][(pc = "prompt" /\ pc' = "exec") =>
          \E k \in 1..Len(applicable_actions) :
              /\ selected' = applicable_actions[k]
              /\ \E i \in 1..Len(menu) :
                    menu[i].num = k /\ menu[i].action = selected']_vars

\* C33: at the start of every applicability pass the fields has_remote and
\* has_commits of the RepoState agree with the repository, also in the cycle
\* after an execute that returned False.
C33_FieldsAgreeAtSelect ==
    pc = "select" =>
        /\ st.has_remote = (fs.is_repo /\ fs.remote # None)
        /\ st.has_commits = (fs.is_repo /\ fs.has_commits)

-----------------------------------------------------------------------------
(* Properties of the fact store and of the setup actions over a session *)

\* C34: in every state of a session, when the fact github_actions_checked is
\* absent, no fact whose key starts with github_actions_ is present.
C34_NamespaceHasMarker ==
    ~HasFact(facts, "github_actions_checked") =>
        \A key \in DOMAIN facts : ~StartsWith(key, GA_PREFIX)

\* a refresh has cleared the namespace and its fetch has failed: the marker
\* is absent when execute returns
C34_Witness ==
    /\ pc = "post" /\ selected = "RefreshGithubActions"
    /\ ~HasFact(facts, "github_actions_checked")

\* the setup actions that undo their own applicability
OneShot == {"InitRepo", "InitialCommit", "AddReadme", "AddGitignore", "SetupRemote"}

\* the execute of a has returned True and the refresh that follows is done
SucceededAndRefreshed(a) ==
    pc = "pause" /\ selected = a /\ success = "true"

\* C35: once the execute of InitRepo, InitialCommit, AddReadme, AddGitignore
\* or SetupRemote has returned True and the state has been refreshed, that
\* action is not applicable in the next cycle nor ever again in the session,
\* so it is never executed again and succeeds at most once; after a
\* successful InitRepo, InitialCommit is never applicable either.
C35_OneShotActions ==
    \A a \in OneShot :
        [](SucceededAndRefreshed(a) =>
              [](/\ ~IsApplicable(a, st, facts, lsRemote)
                 /\ ~Running(a)
                 /\ a = "InitRepo" => ~IsApplicable("InitialCommit", st, facts, lsRemote)))

\* InitRepo has succeeded and the state is refreshed: neither it nor
\* InitialCommit is applicable on the fields the next cycle will read
C35_Witness ==
    /\ SucceededAndRefreshed("InitRepo")
    /\ ~IsApplicable("InitRepo", st, facts, lsRemote)
    /\ ~IsApplicable("InitialCommit", st, facts, lsRemote)

-----------------------------------------------------------------------------
(* Properties of the MCP server: the state of a request, the id of a
   response, the refusing server *)

\* a tools/call of download_job_traces whose params and arguments are objects
\* (or absent)
CallsDownloadJobTraces(l) ==
    /\ l.kind = "object"
    /\ l.method = "tools/call"
    /\ l.form = "ok"
    /\ l.name = "download_job_traces"

\* the lines standard output received from the Console of an action while the
\* line read last was handled
ConsoleOutput == SelectSeq(stdout, LAMBDA e : e.kind = "console" /\ e.for = nread)

C37_ResponseCarriesRequestId ==
    (Answered /\ line.kind = "object") =>
        \A i \in 1..Len(Answer) : Answer[i].id = line.id

\* C38: a server whose start-up check has set dev_installation_error answers
\* every line that parses with the error -32603 and the id of the request
\* (null for JSON that is no object), on every line of the session, and runs
\* no handler and no tool; a server whose check has set nothing answers
\* initialize and tools/list with a result that carries the id.
C38_RefusesWholeSession ==
    (Answered /\ line.kind \in {"not_object", "object"}) =>
        IF dev_installation_error
        THEN /\ Answer = <<[kind |-> "response", for |-> nread, code |-> -32603,
                            id |-> IF line.kind = "object" THEN line.id ELSE None]>>
             /\ ran = {}
             /\ ConsoleOutput = <<>>
             /\ \A i \in 1..Len(Responses) : Responses[i].code \in {-32603, -32700}
        ELSE (line.kind = "object" /\ line.method \in {"initialize", "tools/list"}) =>
                Answer = <<[kind |-> "response", for |-> nread, code |-> 0,
                            id |-> line.id]>>

\* the refusing server has answered its third line, an initialize that has an
\* id, as it answered the two lines before it
C38_Witness ==
    /\ dev_installation_error
    /\ Answered
    /\ nread = MaxLines
    /\ line.kind = "object" /\ line.method = "initialize" /\ line.id = "id1"
    /\ Len(Responses) = MaxLines
    /\ \A i \in 1..Len(Responses) : Responses[i].code = -32603

-----------------------------------------------------------------------------
(* Properties of the menu loop *)

\* execute was entered in the cycle the driver is in
ExecuteCalled == selected # None

ContinuesOrEnds ==
    /\ (pc = "prompt" /\ pc' = "pause") => ~ExecuteCalled'
    /\ (pc = "post" /\ success = "false") => pc' = "pause"
    /\ (pc = "post" /\ success = "true") =>
          (pc' = "pause" \/ (pc' = "done" /\ exitReason' = "error"))
    /\ (pc = "post" /\ success = "raised") => (pc' = "done" /\ exitReason' = "error")
    /\ pc = "pause" =>
          (pc' = "select"
           \/ (pc' = "done" /\ exitReason' \in {"KeyboardInterrupt", "pause_EOFError"}))

====
